---- MODULE Spec2Model ----
(***************************************************************************)
(* A model of forest's plain CAR blockstore (src/db/car/plain.rs):         *)
(* PlainCar::new indexing a CARv1/CARv2 byte stream, and the Blockstore    *)
(* operations get and put_keyed run by several threads under the two       *)
(* parking_lot read/write locks of a handle.                               *)
(***************************************************************************)
EXTENDS Integers, Sequences, FiniteSets, TLC

(***************************************************************************)
(* Bounds of the model.                                                    *)
(***************************************************************************)
\* the longest list of block frames an enumerated archive holds
MaxBlocks == 2
\* the number of Blockstore calls made on one handle
MaxCalls == 3

\* the threads sharing one handle
Threads == {"t1", "t2"}

(***************************************************************************)
(* Results.  Option<Vec<u8>>, io::Result and anyhow::Result values are     *)
(* records of one shape: tag, the bytes (val) and the io::ErrorKind.       *)
(***************************************************************************)
Some(bytes) == [tag |-> "Some", val |-> bytes, kind |-> ""]

None == [tag |-> "None", val |-> <<>>, kind |-> ""]

OkUnit == [tag |-> "Ok", val |-> <<>>, kind |-> ""]

Err(k) == [tag |-> "Err", val |-> <<>>, kind |-> k]

\* a panic, with its message in short
Panicked(msg) == [tag |-> "Panic", val |-> <<>>, kind |-> msg]

(***************************************************************************)
(* Bytes and cursors.  A reader is a sequence of bytes (0..255); a cursor  *)
(* position is 0-based, so the byte at position p is data[p + 1].  A read  *)
(* at or past the end returns 0 bytes.                                     *)
(***************************************************************************)
RECURSIVE Concat(_)
Concat(ss) == IF ss = <<>> THEN <<>> ELSE Head(ss) \o Concat(Tail(ss))

RECURSIVE Zeros(_)
Zeros(n) == IF n = 0 THEN <<>> ELSE <<0>> \o Zeros(n - 1)

\* std::io::Read::read_exact on the cursor: n bytes or UnexpectedEof
ReadExact(data, pos, n) ==
    IF pos + n <= Len(data)
    THEN [kind |-> "Ok", val |-> SubSeq(data, pos + 1, pos + n), pos |-> pos + n]
    ELSE [kind |-> "UnexpectedEof", val |-> <<>>, pos |-> pos]

\* unsigned LEB128, as the CAR writer emits it
RECURSIVE Varint(_)
Varint(n) == IF n < 128 THEN <<n>> ELSE <<(n % 128) + 128>> \o Varint(n \div 128)

\* 2^(7*i) for the i-th varint byte
RECURSIVE Shift7(_)
Shift7(i) == IF i = 0 THEN 1 ELSE 128 * Shift7(i - 1)

\* the encoded size of a u32 varint and of a usize varint
VarintMaxU32 == 5

VarintMaxUsize == 10

\* the stand-in for every integer from 2^30 on
Huge == 1073741824

\* the bits of byte i of a varint that count: the value is decoded as a u64
\* and cast `as` the type read, so of the fifth byte of a u32 the four low
\* bits count and the bits from 2^32 on are cut off
VarintPayload(b, i, maxBytes) ==
    IF maxBytes = VarintMaxU32 /\ i = VarintMaxU32 - 1 THEN b % 16 ELSE b % 128

\* bits << (7 * i)
ShiftLeft7(bits, i) ==
    IF bits = 0 THEN 0
    ELSE IF i < 4 \/ (i = 4 /\ bits < 4) THEN bits * Shift7(i)
    ELSE Huge

\* what byte i of a varint adds to the value read so far
VarintBits(b, i, acc, maxBytes) ==
    IF acc >= Huge \/ ShiftLeft7(VarintPayload(b, i, maxBytes), i) >= Huge
    THEN Huge
    ELSE acc + ShiftLeft7(VarintPayload(b, i, maxBytes), i)

\* VarIntReader::read_varint: at most maxBytes bytes, stops at the first byte
\* with the top bit clear; EOF is UnexpectedEof, too many bytes InvalidData.
RECURSIVE ReadVarintFrom(_, _, _, _, _)
ReadVarintFrom(data, pos, i, acc, maxBytes) ==
    IF pos >= Len(data)
    THEN [kind |-> "UnexpectedEof", val |-> 0, pos |-> pos]
    ELSE LET b == data[pos + 1]
             v == VarintBits(b, i, acc, maxBytes)
         IN IF b < 128
            THEN [kind |-> "Ok", val |-> v, pos |-> pos + 1]
            ELSE IF i + 1 >= maxBytes
                 THEN [kind |-> "InvalidData", val |-> 0, pos |-> pos + 1]
                 ELSE ReadVarintFrom(data, pos + 1, i + 1, v, maxBytes)

ReadVarint(data, pos, maxBytes) == ReadVarintFrom(data, pos, 0, 0, maxBytes)

(***************************************************************************)
(* CIDs.  A Cid is kept as its byte serialization: version 1, codec,       *)
(* multihash code, digest size, digest.  The archives of the model use     *)
(* the identity multihash (code 0), whose digest is the payload itself,    *)
(* so equal CIDs address equal payloads.                                   *)
(***************************************************************************)
DagCbor == 113

MkCid(payload) == <<1, DagCbor, 0, Len(payload)>> \o payload

\* Cid::read_bytes: version, codec, multihash code, size, digest
ReadCid(data, pos) ==
    LET ver == ReadVarint(data, pos, VarintMaxUsize)
    IN IF ver.kind # "Ok" THEN [kind |-> ver.kind, cid |-> <<>>, pos |-> pos]
       ELSE IF ver.val # 1 THEN [kind |-> "InvalidData", cid |-> <<>>, pos |-> pos]
       ELSE
       LET codec == ReadVarint(data, ver.pos, VarintMaxUsize)
       IN IF codec.kind # "Ok" THEN [kind |-> codec.kind, cid |-> <<>>, pos |-> pos]
          ELSE
          LET code == ReadVarint(data, codec.pos, VarintMaxUsize)
          IN IF code.kind # "Ok" THEN [kind |-> code.kind, cid |-> <<>>, pos |-> pos]
             ELSE
             LET size == ReadVarint(data, code.pos, VarintMaxUsize)
             IN IF size.kind # "Ok" THEN [kind |-> size.kind, cid |-> <<>>, pos |-> pos]
                ELSE
                LET digest == ReadExact(data, size.pos, size.val)
                IN IF digest.kind # "Ok"
                   THEN [kind |-> digest.kind, cid |-> <<>>, pos |-> pos]
                   ELSE [kind |-> "Ok",
                         cid |-> SubSeq(data, pos + 1, digest.pos),
                         pos |-> digest.pos]

(***************************************************************************)
(* Fixed-width integers.  An i64 read little-endian and cast `as u64`:     *)
(* the model keeps the exact value below 2^24 and stands Huge for every    *)
(* larger one (a negative i64 becomes at least 2^63); Huge lies beyond     *)
(* the end of every reader of the model, and saturating_add keeps it.      *)
(***************************************************************************)

LE64(n) == <<n % 256, (n \div 256) % 256, (n \div 65536) % 256, 0, 0, 0, 0, 0>>

\* FixedIntReader::read_fixedint::<i64>, with the sign kept beside the cast
DecodeI64(b) ==
    [neg |-> b[8] >= 128,
     u   |-> IF \A i \in 4..8 : b[i] = 0
             THEN b[1] + 256 * b[2] + 65536 * b[3]
             ELSE Huge]

SaturatingAdd(a, b) == IF a >= Huge \/ b >= Huge \/ a + b >= Huge THEN Huge ELSE a + b

(***************************************************************************)
(* CARv2 pragma and header.                                                *)
(***************************************************************************)
CAR_V2_PRAGMA == <<161, 103, 118, 101, 114, 115, 105, 111, 110, 2>>

NoHeaderV2 == [present |-> FALSE,
               data_offset  |-> [neg |-> FALSE, u |-> 0],
               data_size    |-> [neg |-> FALSE, u |-> 0],
               index_offset |-> [neg |-> FALSE, u |-> 0]]

\* read_v2_header: [kind, header, pos]; header.present is the Option
read_v2_header(data, pos) ==
    LET len == ReadExact(data, pos, 1)
    IN IF len.kind # "Ok" THEN [kind |-> len.kind, header |-> NoHeaderV2]
       ELSE IF len.val[1] # Len(CAR_V2_PRAGMA) THEN [kind |-> "Ok", header |-> NoHeaderV2]
       ELSE
       LET buffer == ReadExact(data, len.pos, Len(CAR_V2_PRAGMA))
       IN IF buffer.kind # "Ok" THEN [kind |-> buffer.kind, header |-> NoHeaderV2]
          ELSE IF buffer.val # CAR_V2_PRAGMA THEN [kind |-> "Ok", header |-> NoHeaderV2]
          ELSE
          LET rest == ReadExact(data, buffer.pos, 16 + 8 + 8 + 8)
          IN IF rest.kind # "Ok" THEN [kind |-> rest.kind, header |-> NoHeaderV2]
             ELSE [kind |-> "Ok",
                   header |-> [present |-> TRUE,
                               data_offset  |-> DecodeI64(SubSeq(rest.val, 17, 24)),
                               data_size    |-> DecodeI64(SubSeq(rest.val, 25, 32)),
                               index_offset |-> DecodeI64(SubSeq(rest.val, 33, 40))]]

(***************************************************************************)
(* CARv1 header.  The DAG-CBOR map {version, roots} is kept in a reduced   *)
(* encoding: the version byte, the number of roots, the roots' CIDs.       *)
(***************************************************************************)
HeaderBody(version, roots) == <<version, Len(roots)>> \o Concat(roots)

RECURSIVE ReadRoots(_, _, _)
ReadRoots(body, pos, n) ==
    IF n = 0
    THEN [ok |-> pos = Len(body), roots |-> <<>>]
    ELSE LET c == ReadCid(body, pos)
         IN IF c.kind # "Ok" THEN [ok |-> FALSE, roots |-> <<>>]
            ELSE LET r == ReadRoots(body, c.pos, n - 1)
                 IN [ok |-> r.ok, roots |-> <<c.cid>> \o r.roots]

\* from_slice_with_fallback::<CarV1Header>: roots is a non-empty vector
DecodeCarV1Header(body) ==
    IF Len(body) < 2 \/ body[2] = 0
    THEN [ok |-> FALSE, version |-> 0, roots |-> <<>>]
    ELSE LET r == ReadRoots(body, 2, body[2])
         IN [ok |-> r.ok, version |-> body[1], roots |-> r.roots]

\* V1HeaderChecked without the look at the version
V1HeaderChecked_AnyVersion(header, pos) ==
    IF ~header.ok
    THEN [kind |-> "InvalidData", version |-> 0, roots |-> <<>>, pos |-> pos]
    ELSE [kind |-> "Ok", version |-> 1, roots |-> header.roots, pos |-> pos]

\* read_v1_header, once the header is decoded: only version 1 is supported
V1HeaderChecked(header, pos) ==
    IF ~header.ok
    THEN [kind |-> "InvalidData", version |-> 0, roots |-> <<>>, pos |-> pos]
    ELSE IF header.version = 1
         THEN [kind |-> "Ok", version |-> 1, roots |-> header.roots, pos |-> pos]
         ELSE [kind |-> "Unsupported", version |-> 0, roots |-> <<>>, pos |-> pos]

\* read_v1_header, once the header frame's body is read
V1HeaderOfBody(buffer, pos) ==
    IF buffer.kind # "Ok"
    THEN [kind |-> buffer.kind, version |-> 0, roots |-> <<>>, pos |-> pos]
    ELSE V1HeaderChecked(DecodeCarV1Header(buffer.val), buffer.pos)

\* read_v1_header, once the header length is read
V1HeaderOfLen(data, pos, header_len) ==
    IF header_len.kind # "Ok"
    THEN [kind |-> header_len.kind, version |-> 0, roots |-> <<>>, pos |-> pos]
    ELSE V1HeaderOfBody(ReadExact(data, header_len.pos, header_len.val), pos)

\* read_v1_header: [kind, version, roots, pos]
read_v1_header(data, pos) == V1HeaderOfLen(data, pos, ReadVarint(data, pos, VarintMaxUsize))

(***************************************************************************)
(* Block frames.                                                           *)
(***************************************************************************)
\* read_varint_body_length_or_eof: a 0-byte read is the end of the stream
read_varint_body_length_or_eof(data, pos) ==
    IF pos >= Len(data)
    THEN [kind |-> "Eof", val |-> 0, pos |-> pos]
    ELSE ReadVarint(data, pos, VarintMaxU32)

BlockOut(k, e, c, o, l, p) ==
    [kind |-> k, err |-> e, cid |-> c, offset |-> o, length |-> l, pos |-> p]

\* BlockLocation with the CID taken for a part of the block data
BlockLocation_FromFrameStart(pos, frame_body_offset, body_length, cid) ==
    IF cid.kind # "Ok" THEN BlockOut("Err", cid.kind, <<>>, 0, 0, pos)
    ELSE BlockOut("Some", "", cid.cid, frame_body_offset, body_length,
                  frame_body_offset + body_length)

\* BlockLocation that leaves the cursor where the block data starts
BlockLocation_NoSkip(pos, frame_body_offset, body_length, cid) ==
    IF cid.kind # "Ok" THEN BlockOut("Err", cid.kind, <<>>, 0, 0, pos)
    ELSE IF frame_body_offset + body_length < cid.pos
    THEN BlockOut("Panic", "", <<>>, 0, 0, pos)
    ELSE BlockOut("Some", "", cid.cid, cid.pos,
                  frame_body_offset + body_length - cid.pos, cid.pos)

\* read_block_data_location_and_skip, once the CID is read: the location and
\* the seek to the next frame
BlockLocation(pos, frame_body_offset, body_length, cid) ==
    IF cid.kind # "Ok" THEN BlockOut("Err", cid.kind, <<>>, 0, 0, pos)
    ELSE
    LET cid_length == cid.pos - frame_body_offset
        block_data_offset == frame_body_offset + cid_length
        next_frame_offset == frame_body_offset + body_length
    IN \* the u64 subtraction underflows, or its u32 conversion fails
       IF next_frame_offset < block_data_offset
       THEN BlockOut("Panic", "", <<>>, 0, 0, pos)
       ELSE BlockOut("Some", "", cid.cid, block_data_offset,
                     next_frame_offset - block_data_offset, next_frame_offset)

\* read_block_data_location_and_skip, once the body length is read
BlockOfLength(data, pos, body_length) ==
    IF body_length.kind = "Eof" THEN BlockOut("None", "", <<>>, 0, 0, pos)
    ELSE IF body_length.kind # "Ok"
         THEN BlockOut("Err", body_length.kind, <<>>, 0, 0, pos)
         ELSE BlockLocation(pos, body_length.pos, body_length.val,
                            ReadCid(data, body_length.pos))

\* read_block_data_location_and_skip with limit_position left unread
read_block_data_location_and_skip_NoLimit(data, pos, limit) ==
    BlockOfLength(data, pos, read_varint_body_length_or_eof(data, pos))

\* read_block_data_location_and_skip: [kind \in None, Some, Err, Panic]
\* limit is -1 for a missing limit_position
read_block_data_location_and_skip(data, pos, limit) ==
    IF limit >= 0 /\ pos >= limit
    THEN BlockOut("None", "", <<>>, 0, 0, pos)
    ELSE BlockOfLength(data, pos, read_varint_body_length_or_eof(data, pos))

\* iter::from_fn(..).collect::<Result<..>>(): the frames up to the first None,
\* or the first error
RECURSIVE IndexFrames(_, _, _, _)
\* IndexNext handing the frames over in the reverse of the stream order
IndexNext_Reversed(data, limit, acc, r) ==
    CASE r.kind = "None"  -> [kind |-> "Ok", err |-> "", frames |-> acc]
      [] r.kind = "Err"   -> [kind |-> "Err", err |-> r.err, frames |-> <<>>]
      [] r.kind = "Panic" -> [kind |-> "Panic", err |-> "", frames |-> <<>>]
      [] OTHER -> IndexFrames(data, r.pos, limit,
                     <<[cid |-> r.cid, offset |-> r.offset,
                        length |-> r.length]>> \o acc)

IndexNext(data, limit, acc, r) ==
    CASE r.kind = "None"  -> [kind |-> "Ok", err |-> "", frames |-> acc]
      [] r.kind = "Err"   -> [kind |-> "Err", err |-> r.err, frames |-> <<>>]
      [] r.kind = "Panic" -> [kind |-> "Panic", err |-> "", frames |-> <<>>]
      [] OTHER -> IndexFrames(data, r.pos, limit,
                     Append(acc, [cid |-> r.cid, offset |-> r.offset,
                                  length |-> r.length]))

IndexFrames(data, pos, limit, acc) ==
    IndexNext(data, limit, acc, read_block_data_location_and_skip(data, pos, limit))

\* CidHashMap::from_iter: the first occurrence of a CID keeps its location
CollectIndex(frames) ==
    LET cids == {frames[i].cid : i \in 1..Len(frames)}
        first(c) == CHOOSE i \in 1..Len(frames) :
                       /\ frames[i].cid = c
                       /\ \A j \in 1..(i - 1) : frames[j].cid # c
    IN [c \in cids |-> [offset |-> frames[first(c)].offset,
                        length |-> frames[first(c)].length]]

EmptyMap == [c \in {} |-> <<>>]

NewFailed(k, e) ==
    [kind |-> k, err |-> e, index |-> EmptyMap, version |-> 0,
     roots |-> <<>>, header_v2 |-> NoHeaderV2]

\* NewOfIndex that takes every archive for a CARv1 one
NewOfIndex_AlwaysV1(header_v2, roots, idx) ==
    IF Cardinality(DOMAIN idx) = 0
    THEN NewFailed("Err", "InvalidData")
    ELSE [kind |-> "Ok", err |-> "", index |-> idx, version |-> 1,
          roots |-> roots, header_v2 |-> header_v2]

\* NewOfIndex that opens an archive without blocks
NewOfIndex_EmptyAllowed(header_v2, roots, idx) ==
    [kind |-> "Ok", err |-> "", index |-> idx,
     version |-> IF header_v2.present THEN 2 ELSE 1,
     roots |-> roots, header_v2 |-> header_v2]

\* PlainCar::new, the index collected: an archive without blocks is refused
NewOfIndex(header_v2, roots, idx) ==
    IF Cardinality(DOMAIN idx) = 0
    THEN NewFailed("Err", "InvalidData")
    ELSE [kind |-> "Ok", err |-> "", index |-> idx,
          version |-> IF header_v2.present THEN 2 ELSE 1,
          roots |-> roots, header_v2 |-> header_v2]

\* PlainCar::new, the block frames walked
NewOfFrames(header_v2, roots, frames) ==
    IF frames.kind # "Ok" THEN NewFailed(frames.kind, frames.err)
    ELSE NewOfIndex(header_v2, roots, CollectIndex(frames.frames))

\* PlainCar::new, the v1 header read
NewOfV1Header(data, header_v2, limit_position, header_v1) ==
    IF header_v1.kind # "Ok" THEN NewFailed("Err", header_v1.kind)
    ELSE NewOfFrames(header_v2, header_v1.roots,
                     IndexFrames(data, header_v1.pos, limit_position, <<>>))

\* the cursor position new reads the v1 header at
StartPosition(header_v2) ==
    IF header_v2.present THEN SaturatingAdd(0, header_v2.data_offset.u) ELSE 0

\* LimitPosition that gives no CARv2 archive a limit
LimitPosition_Unlimited(header_v2) == -1

\* limit_position: -1 for None
LimitPosition(header_v2) ==
    IF header_v2.present
    THEN SaturatingAdd(StartPosition(header_v2), header_v2.data_size.u)
    ELSE -1

\* PlainCar::new, the v2 header read
NewOfV2Header(data, v2) ==
    IF v2.kind # "Ok" THEN NewFailed("Err", v2.kind)
    ELSE NewOfV1Header(data, v2.header, LimitPosition(v2.header),
                       read_v1_header(data, StartPosition(v2.header)))

\* PlainCar::new: [kind \in Ok, Err, Panic]
PlainCarNew(data) == NewOfV2Header(data, read_v2_header(data, 0))

(***************************************************************************)
(* The archives the handle is opened on.  Valid CARv1 and CARv2 streams    *)
(* are written frame by frame as the module documentation lays them out;   *)
(* malformed streams stand for adversarial input.                          *)
(***************************************************************************)
\* a varint frame: the body length, then the body
Frame(body) == Varint(Len(body)) \o body

\* a block frame: the body is the CID followed by the block data
BlockFrame(block) == Frame(block.cid \o block.data)

CarV1(roots, blocks) ==
    Frame(HeaderBody(1, roots))
        \o Concat([i \in 1..Len(blocks) |-> BlockFrame(blocks[i])])

\* pragma frame (11 bytes), characteristics and three offsets (40 bytes)
V2HeaderLen == 51

\* pragma, v2 header, the v1 stream at data_offset, then the index section
CarV2(v1, trailer) ==
    <<Len(CAR_V2_PRAGMA)>> \o CAR_V2_PRAGMA \o Zeros(16)
        \o LE64(V2HeaderLen) \o LE64(Len(v1)) \o LE64(V2HeaderLen + Len(v1))
        \o v1 \o trailer

\* a CARv2 stream with its header fields given as bytes, and padding between
\* the header and the v1 stream
CarV2Raw(data_offset, data_size, padding, v1, trailer) ==
    <<Len(CAR_V2_PRAGMA)>> \o CAR_V2_PRAGMA \o Zeros(16)
        \o data_offset \o data_size \o LE64(V2HeaderLen + padding + Len(v1))
        \o Zeros(padding) \o v1 \o trailer

\* the i64 -1 on the wire
MinusOne == <<255, 255, 255, 255, 255, 255, 255, 255>>

Block(payload) == [cid |-> MkCid(payload), data |-> payload]

\* the payloads of the blocks stored in archives
ArchivePayloads == {<<7>>, <<8, 9>>}

\* a payload found in no v1 data section
OtherPayload == <<5>>

BlockLists == UNION {[1..n -> {Block(p) : p \in ArchivePayloads}] : n \in 0..MaxBlocks}

Roots == <<MkCid(<<7>>)>>

ValidV1 == {CarV1(Roots, bl) : bl \in BlockLists}

\* the index section of a CARv2 stream, here bytes that read as a block frame
V2Trailer == BlockFrame(Block(OtherPayload))

\* CARv2 streams around the v1 streams of at most one block
ValidV2 == {CarV2(CarV1(Roots, bl), V2Trailer) : bl \in {b \in BlockLists : Len(b) <= 1}}

\* a CARv2 stream whose v1 stream starts two bytes after the header
PaddedV2 ==
    CarV2Raw(LE64(V2HeaderLen + 2), LE64(Len(CarV1(Roots, <<Block(<<8, 9>>)>>))), 2,
             CarV1(Roots, <<Block(<<8, 9>>)>>), V2Trailer)

\* CARv2 streams with a negative data_offset and with a negative data_size
NegativeV2 ==
    { CarV2Raw(MinusOne, LE64(Len(CarV1(Roots, <<Block(<<7>>)>>))), 0,
               CarV1(Roots, <<Block(<<7>>)>>), V2Trailer),
      CarV2Raw(LE64(V2HeaderLen), MinusOne, 0,
               CarV1(Roots, <<Block(<<7>>)>>), V2Trailer) }

DropLast(s) == SubSeq(s, 1, Len(s) - 1)

Malformed ==
    { <<>>,
      \* the last block's data is cut short
      DropLast(CarV1(Roots, <<Block(<<7>>)>>)),
      \* the last block's CID is cut short
      SubSeq(CarV1(Roots, <<Block(<<7>>)>>), 1, Len(Frame(HeaderBody(1, Roots))) + 3),
      \* a body length smaller than the CID it holds
      Frame(HeaderBody(1, Roots)) \o <<2>> \o MkCid(<<7>>) \o <<7>>,
      \* a v1 header of version 2
      Frame(HeaderBody(2, Roots)) \o BlockFrame(Block(<<7>>)),
      \* a v1 header without roots
      Frame(HeaderBody(1, <<>>)) \o BlockFrame(Block(<<7>>)) }

Inputs == ValidV1 \cup ValidV2 \cup {PaddedV2} \cup NegativeV2 \cup Malformed

(***************************************************************************)
(* The reference reading of an archive: every frame is read whole, its     *)
(* body split into CID and block data, as load_car does into a memory      *)
(* blockstore.                                                             *)
(***************************************************************************)
\* the frames of data[pos..stop): [ok, blocks]
RECURSIVE LoadFrames(_, _, _)
LoadFrames(data, pos, stop) ==
    IF pos >= stop THEN [ok |-> TRUE, blocks |-> <<>>]
    ELSE LET len == ReadVarint(data, pos, VarintMaxU32)
         IN IF len.kind # "Ok" \/ len.pos + len.val > stop
            THEN [ok |-> FALSE, blocks |-> <<>>]
            ELSE LET body == SubSeq(data, len.pos + 1, len.pos + len.val)
                     c == ReadCid(body, 0)
                 IN IF c.kind # "Ok" THEN [ok |-> FALSE, blocks |-> <<>>]
                    ELSE LET rest == LoadFrames(data, len.pos + len.val, stop)
                         IN [ok |-> rest.ok,
                             blocks |-> <<[cid |-> c.cid,
                                           data |-> SubSeq(body, c.pos + 1, Len(body))]>>
                                        \o rest.blocks]

\* load_car: the v1 data section is the whole stream, or the window the v2
\* header gives; [ok, blocks]
LoadCar(data) ==
    LET bad == [ok |-> FALSE, blocks |-> <<>>]
        v2 == read_v2_header(data, 0)
    IN IF v2.kind # "Ok" THEN bad
       ELSE
       LET start == IF v2.header.present THEN v2.header.data_offset.u ELSE 0
           stop == IF v2.header.present
                   THEN SaturatingAdd(start, v2.header.data_size.u)
                   ELSE Len(data)
           h == read_v1_header(data, start)
       IN IF h.kind # "Ok" \/ stop > Len(data) THEN bad
          ELSE LET fr == LoadFrames(data, h.pos, stop)
               IN IF fr.ok /\ fr.blocks # <<>> THEN fr ELSE bad

\* the memory blockstore after load_car: the set of its (cid, data) pairs
ReferenceBlocks(data) ==
    LET l == LoadCar(data) IN {l.blocks[i] : i \in 1..Len(l.blocks)}

(***************************************************************************)
(* The handle and its callers.                                             *)
(*   stage        init, then open | failed | panicked (PlainCar::new)      *)
(*   new_err      the io::ErrorKind new returned                           *)
(*   index        CID -> [offset, length]                                  *)
(*   write_cache  CID -> bytes                                             *)
(*   rd, wr       per lock: the threads holding a read guard, and the      *)
(*                thread holding the write guard                           *)
(*   pc, arg      per thread: where its call stands, and the call          *)
(*   hist         the finished calls in the order they finished, each      *)
(*                with its result and with the number of calls that had    *)
(*                finished when it started                                 *)
(***************************************************************************)
VARIABLES reader, stage, new_err, version, header_v1, header_v2,
          index, write_cache, rd, wr, pc, arg, hist

\* the snapshot importer: the source named by from_path, the entries of
\* forest_car_db_dir, and the position of import_chain_as_forest_car
VARIABLES source, car_db, import

\* the directory loader: whether forest_car_db_dir is a directory, the
\* position of load_all_forest_cars_internal, and the archives handed to
\* store.read_only, in the order of the calls
VARIABLES db_dir, loader, many_car

\* get_f3_sidecar_params: the environment, the chain config and the options
VARIABLE f3

\* populate_eth_mappings: the environment variable, the Hygge epoch, the
\* chain from the head backwards, and what the call has done so far
VARIABLE eth

vars == <<reader, stage, new_err, version, header_v1, header_v2,
          index, write_cache, rd, wr, pc, arg, hist, source, car_db, import,
          db_dir, loader, many_car, f3, eth>>

importer == <<source, car_db, import>>

startup == <<db_dir, loader, many_car>>

\* what PlainCar's operations leave alone
beside_store == <<importer, startup, f3, eth>>

\* no import is under way: no source, an empty directory, no call
NoSource == [kind |-> "-", exists |-> FALSE, format |-> "-", tipset |-> 0, inode |-> 0]

EmptyDir == [n \in {} |-> NoSource]

NotImporting == [pc |-> "-", import_mode |-> "-", mode |-> "-", ret |-> "-", ts |-> 0]

ImporterIdle == source = NoSource /\ car_db = EmptyDir /\ import = NotImporting

\* the loader has not been called: its position, its cleanup flag, the
\* entries the walk has still to yield, its result, the path its error
\* names, store.len() at the call, the paths of its "Deleted temp car DB"
\* and "Failed to delete temp car DB" lines, and the entries whose walk
\* error was dropped
NotLoading ==
    [pc |-> "-", cleanup |-> FALSE, todo |-> {}, ret |-> "-", failed |-> <<>>,
     len0 |-> 0, deleted |-> {}, warned |-> {}, unread |-> {}]

\* the managed directory exists, the loader has not been called and no
\* archive is registered
StartupIdle == db_dir = "dir" /\ loader = NotLoading /\ many_car = <<>>

\* get_f3_sidecar_params has no part in the run
NoF3 == [env |-> <<>>, chain_config |-> <<>>, options |-> <<>>]

SidecarIdle == f3 = NoF3

\* populate_eth_mappings has not been called: its position, the result of
\* std::env::var, the Hygge epoch, the tipsets of the chain, the lower bound,
\* the place of the walk, the tipset keys put, the delegated messages
\* gathered, the arguments of the calls of process_signed_messages, and the
\* result
NoEth ==
    [pc |-> "-", env |-> Err("NotPresent"), hygge |-> 0, chain |-> <<>>,
     from_epoch |-> 0, at |-> 0, keys |-> {}, delegated |-> <<>>,
     processed |-> <<>>, ret |-> "-"]

MappingsIdle == eth = NoEth

handle == <<reader, stage, new_err, version, header_v1, header_v2, index>>

Locks == {"index", "cache"}

\* the keys callers ask for, the keys they write and the blocks they write
GetCids == {MkCid(p) : p \in ArchivePayloads \cup {OtherPayload}}

PutCids == {MkCid(<<7>>), MkCid(OtherPayload)}

PutBlocks == {<<7>>, <<5>>}

NoArg == [op |-> "-", k |-> <<>>, block |-> <<>>, start |-> 0]

Init ==
    /\ reader \in Inputs
    /\ stage = "init"
    /\ new_err = ""
    /\ version = 0
    /\ header_v1 = <<>>
    /\ header_v2 = NoHeaderV2
    /\ index = EmptyMap
    /\ write_cache = EmptyMap
    /\ rd = [l \in Locks |-> {}]
    /\ wr = [l \in Locks |-> "none"]
    /\ pc = [t \in Threads |-> "idle"]
    /\ arg = [t \in Threads |-> NoArg]
    /\ hist = <<>>
    /\ ImporterIdle
    /\ StartupIdle
    /\ SidecarIdle
    /\ MappingsIdle

\* PlainCar::new(reader)
New ==
    /\ stage = "init"
    /\ LET r == PlainCarNew(reader)
       IN /\ stage' = CASE r.kind = "Ok" -> "open"
                        [] r.kind = "Err" -> "failed"
                        [] OTHER -> "panicked"
          /\ new_err' = r.err
          /\ version' = r.version
          /\ header_v1' = r.roots
          /\ header_v2' = r.header_v2
          /\ index' = r.index
    /\ write_cache' = EmptyMap
    /\ UNCHANGED <<beside_store, reader, rd, wr, pc, arg, hist>>

\* the calls started so far
Started == Len(hist) + Cardinality({t \in Threads : pc[t] \notin {"idle", "panicked"}})

\* the record of t's call finishing with result r
Finished(t, r) ==
    Append(hist, [op |-> arg[t].op, k |-> arg[t].k, block |-> arg[t].block,
                  start |-> arg[t].start, ret |-> r])

(***************************************************************************)
(* parking_lot::RwLock.  read() is granted when no writer holds the lock   *)
(* and none is parked on it; write() when nobody holds the lock.           *)
(***************************************************************************)
\* get taking the write cache before the index
GetLockOrder_CacheFirst == <<"cache", "index">>

\* the order in which get takes its read guards
GetLockOrder == <<"index", "cache">>

\* put_keyed taking the write cache before the index
PutLockOrder_CacheFirst == <<"cache", "index">>

\* the order in which put_keyed takes its write guards
PutLockOrder == <<"index", "cache">>

\* the lock a thread's parked write() call waits for
WaitsWrite(t) ==
    CASE pc[t] = "p_lock1" -> PutLockOrder[1]
      [] pc[t] = "p_lock2" -> PutLockOrder[2]
      [] pc[t] = "g_evict" -> "cache"
      [] OTHER -> "none"

\* the lock a thread's read() call waits for
WaitsRead(t) ==
    CASE pc[t] = "g_lock1" -> GetLockOrder[1]
      [] pc[t] = "g_lock2" -> GetLockOrder[2]
      [] OTHER -> "none"

CanRead(l) == wr[l] = "none" /\ \A t \in Threads : WaitsWrite(t) # l

CanWrite(l) == wr[l] = "none" /\ rd[l] = {}

\* every read guard of t dropped
Released(t, held) == [l \in Locks |-> held[l] \ {t}]

\* every write guard of t dropped
Unlocked(t, w) == [l \in Locks |-> IF w[l] = t THEN "none" ELSE w[l]]

(***************************************************************************)
(* Blockstore::get                                                         *)
(***************************************************************************)
GetCall(t, k) ==
    /\ stage = "open"
    /\ pc[t] = "idle"
    /\ Started < MaxCalls
    /\ pc' = [pc EXCEPT ![t] = "g_lock1"]
    /\ arg' = [arg EXCEPT ![t] = [op |-> "get", k |-> k, block |-> <<>>,
                                  start |-> Len(hist)]]
    /\ UNCHANGED <<beside_store, handle, write_cache, rd, wr, hist>>

\* self.index.read()
GetLockFirst(t) ==
    /\ pc[t] = "g_lock1"
    /\ CanRead(GetLockOrder[1])
    /\ rd' = [rd EXCEPT ![GetLockOrder[1]] = @ \cup {t}]
    /\ pc' = [pc EXCEPT ![t] = "g_lock2"]
    /\ UNCHANGED <<beside_store, handle, write_cache, wr, arg, hist>>

\* self.write_cache.read()
GetLockSecond(t) ==
    /\ pc[t] = "g_lock2"
    /\ CanRead(GetLockOrder[2])
    /\ rd' = [rd EXCEPT ![GetLockOrder[2]] = @ \cup {t}]
    /\ pc' = [pc EXCEPT ![t] = "g_match"]
    /\ UNCHANGED <<beside_store, handle, write_cache, wr, arg, hist>>

\* ReadAt::read_exact_at
read_exact_at(data, offset, length) ==
    IF offset + length <= Len(data)
    THEN Some(SubSeq(data, offset + 1, offset + length))
    ELSE Err("UnexpectedEof")

\* GetArm that reads the index alone
GetArm_IndexOnly(idx, cache, data, k) ==
    IF k \in DOMAIN idx
    THEN read_exact_at(data, idx[k].offset, idx[k].length)
    ELSE None

\* the arms of get's match that return under the read guards
GetArm(idx, cache, data, k) ==
    IF k \in DOMAIN idx
    THEN read_exact_at(data, idx[k].offset, idx[k].length)
    ELSE IF k \in DOMAIN cache
         THEN Some(cache[k])
         ELSE None

\* the match of get: the eviction arm calls write_cache.write() with both
\* read guards of the scrutinee still alive; the other arms return and the
\* guards are dropped with the match
GetMatch(t) ==
    /\ pc[t] = "g_match"
    /\ IF arg[t].k \in DOMAIN index /\ arg[t].k \in DOMAIN write_cache
       THEN /\ pc' = [pc EXCEPT ![t] = "g_evict"]
            /\ UNCHANGED <<rd, arg, hist>>
       ELSE /\ pc' = [pc EXCEPT ![t] = "idle"]
            /\ hist' = Finished(t, GetArm(index, write_cache, reader, arg[t].k))
            /\ arg' = [arg EXCEPT ![t] = NoArg]
            /\ rd' = Released(t, rd)
    /\ UNCHANGED <<beside_store, handle, write_cache, wr>>

(***************************************************************************)
(* Blockstore::put_keyed                                                   *)
(***************************************************************************)
PutKeyedCall(t, k, block) ==
    /\ stage = "open"
    /\ pc[t] = "idle"
    /\ Started < MaxCalls
    /\ pc' = [pc EXCEPT ![t] = "p_lock1"]
    /\ arg' = [arg EXCEPT ![t] = [op |-> "put_keyed", k |-> k, block |-> block,
                                  start |-> Len(hist)]]
    /\ UNCHANGED <<beside_store, handle, write_cache, rd, wr, hist>>

\* handle_write_cache without its look at the index
handle_write_cache_NoIndexCheck(cache, idx, k, block) ==
    IF k \in DOMAIN cache
    THEN IF cache[k] = block
         THEN [kind |-> "Ok", cache |-> cache, index |-> idx]
         ELSE [kind |-> "Mismatched", cache |-> cache, index |-> idx]
    ELSE [kind |-> "Ok",
          cache |-> [c \in DOMAIN cache \cup {k} |->
                        IF c = k THEN block ELSE cache[c]],
          index |-> idx]

\* handle_write_cache that takes every occupied entry for a mismatch
handle_write_cache_PanicOnOccupied(cache, idx, k, block) ==
    CASE k \notin DOMAIN idx /\ k \in DOMAIN cache ->
             [kind |-> "Mismatched", cache |-> cache, index |-> idx]
      [] k \notin DOMAIN idx /\ k \notin DOMAIN cache ->
             [kind |-> "Ok",
              cache |-> [c \in DOMAIN cache \cup {k} |->
                            IF c = k THEN block ELSE cache[c]],
              index |-> idx]
      [] OTHER -> [kind |-> "Ok", cache |-> cache, index |-> idx]

\* handle_write_cache that lets the last write win
handle_write_cache_Overwrite(cache, idx, k, block) ==
    IF k \in DOMAIN idx
    THEN [kind |-> "Ok", cache |-> cache, index |-> idx]
    ELSE [kind |-> "Ok",
          cache |-> [c \in DOMAIN cache \cup {k} |->
                        IF c = k THEN block ELSE cache[c]],
          index |-> idx]

\* handle_write_cache that enters the CID it caches into the index
handle_write_cache_IndexesWrite(cache, idx, k, block) ==
    CASE k \notin DOMAIN idx /\ k \in DOMAIN cache ->
             IF cache[k] = block
             THEN [kind |-> "Ok", cache |-> cache, index |-> idx]
             ELSE [kind |-> "Mismatched", cache |-> cache, index |-> idx]
      [] k \notin DOMAIN idx /\ k \notin DOMAIN cache ->
             [kind |-> "Ok",
              cache |-> [c \in DOMAIN cache \cup {k} |->
                            IF c = k THEN block ELSE cache[c]],
              index |-> [c \in DOMAIN idx \cup {k} |->
                            IF c = k THEN [offset |-> 0, length |-> Len(block)]
                            ELSE idx[c]]]
      [] k \in DOMAIN idx /\ k \notin DOMAIN cache ->
             [kind |-> "Ok", cache |-> cache, index |-> idx]
      [] OTHER -> [kind |-> "Unreachable", cache |-> cache, index |-> idx]

\* handle_write_cache that takes the entry out when the same bytes come again
handle_write_cache_DropsOnRepeat(cache, idx, k, block) ==
    CASE k \notin DOMAIN idx /\ k \in DOMAIN cache ->
             IF cache[k] = block
             THEN [kind |-> "Ok",
                   cache |-> [c \in DOMAIN cache \ {k} |-> cache[c]],
                   index |-> idx]
             ELSE [kind |-> "Mismatched", cache |-> cache, index |-> idx]
      [] k \notin DOMAIN idx /\ k \notin DOMAIN cache ->
             [kind |-> "Ok",
              cache |-> [c \in DOMAIN cache \cup {k} |->
                            IF c = k THEN block ELSE cache[c]],
              index |-> idx]
      [] k \in DOMAIN idx /\ k \notin DOMAIN cache ->
             [kind |-> "Ok", cache |-> cache, index |-> idx]
      [] OTHER -> [kind |-> "Unreachable", cache |-> cache, index |-> idx]

\* handle_write_cache(write_cache, index, k, block), the two maps it is
\* handed as &mut returned: [kind \in Ok, Mismatched, Unreachable; cache; index]
handle_write_cache(cache, idx, k, block) ==
    CASE k \notin DOMAIN idx /\ k \in DOMAIN cache ->
             IF cache[k] = block
             THEN [kind |-> "Ok", cache |-> cache, index |-> idx]
             ELSE [kind |-> "Mismatched", cache |-> cache, index |-> idx]
      [] k \notin DOMAIN idx /\ k \notin DOMAIN cache ->
             [kind |-> "Ok",
              cache |-> [c \in DOMAIN cache \cup {k} |->
                            IF c = k THEN block ELSE cache[c]],
              index |-> idx]
      [] k \in DOMAIN idx /\ k \notin DOMAIN cache ->
             [kind |-> "Ok", cache |-> cache, index |-> idx]
      [] OTHER -> [kind |-> "Unreachable", cache |-> cache, index |-> idx]

\* handle_write_cache under both write guards; a panic unwinds and drops them
PutKeyedHandle(t) ==
    /\ pc[t] = "p_handle"
    /\ LET r == handle_write_cache(write_cache, index, arg[t].k, arg[t].block)
       IN /\ write_cache' = r.cache
          /\ index' = r.index
          /\ pc' = [pc EXCEPT ![t] = IF r.kind = "Ok" THEN "idle" ELSE "panicked"]
          /\ hist' = Finished(t, IF r.kind = "Ok" THEN OkUnit ELSE Panicked(r.kind))
    /\ arg' = [arg EXCEPT ![t] = NoArg]
    /\ wr' = Unlocked(t, wr)
    /\ UNCHANGED <<beside_store, reader, stage, new_err, version, header_v1,
                   header_v2, rd>>

\* a parked write() call is granted: put_keyed's index.write() and
\* write_cache.write(), and the write_cache.write().remove(k) of get's
\* eviction arm, which returns what it removed and ends the match
RwLockWrite(t) ==
    /\ WaitsWrite(t) # "none"
    /\ CanWrite(WaitsWrite(t))
    /\ IF pc[t] = "g_evict"
       THEN /\ write_cache' = [c \in DOMAIN write_cache \ {arg[t].k} |-> write_cache[c]]
            /\ hist' = Finished(t, IF arg[t].k \in DOMAIN write_cache
                                   THEN Some(write_cache[arg[t].k])
                                   ELSE None)
            /\ pc' = [pc EXCEPT ![t] = "idle"]
            /\ arg' = [arg EXCEPT ![t] = NoArg]
            /\ rd' = Released(t, rd)
            /\ wr' = wr
       ELSE /\ wr' = [wr EXCEPT ![WaitsWrite(t)] = t]
            /\ pc' = [pc EXCEPT ![t] = IF pc[t] = "p_lock1" THEN "p_lock2" ELSE "p_handle"]
            /\ UNCHANGED <<write_cache, hist, rd, arg>>
    /\ UNCHANGED <<beside_store, handle>>

\* a step inside a call of t
CallStep(t) ==
    \/ GetLockFirst(t)
    \/ GetLockSecond(t)
    \/ GetMatch(t)
    \/ RwLockWrite(t)
    \/ PutKeyedHandle(t)

ThreadNext ==
    \E t \in Threads :
        \/ \E k \in GetCids : GetCall(t, k)
        \/ \E k \in PutCids : \E b \in PutBlocks : PutKeyedCall(t, k, b)
        \/ CallStep(t)

Next == New \/ ThreadNext

Spec == Init /\ [][Next]_vars

\* the threads take their steps fairly: parking_lot hands a free lock to a
\* parked thread, and every running thread goes on running
FairSpec == Spec /\ \A t \in Threads : WF_vars(CallStep(t))

(***************************************************************************)
(* Properties.                                                             *)
(***************************************************************************)
Last(s) == s[Len(s)]

\* t's put_keyed reaches handle_write_cache in this step
PutHandled(t) == pc[t] = "p_handle" /\ pc'[t] # "p_handle"

\* t's get returns from one of the arms of its match in this step
GetReturned(t) == pc[t] = "g_match" /\ pc'[t] = "idle"

\* call i of the history is put_keyed(k, b) and returned Ok
IsPutOk(i, k, b) ==
    /\ hist[i].op = "put_keyed"
    /\ hist[i].k = k
    /\ hist[i].block = b
    /\ hist[i].ret = OkUnit

\* call j of the history started after call i had finished
StartedAfter(j, i) == hist[j].start >= i

\* C1: no CID is a key of the write cache and of the index at once, and
\* handle_write_cache never reaches its (index hit, cache occupied) arm.
C1_CacheXorIndex ==
    /\ DOMAIN write_cache \cap DOMAIN index = {}
    /\ \A i \in 1..Len(hist) : hist[i].ret # Panicked("Unreachable")

\* put_keyed of a CID of the index has returned, and the cache holds a block
C1_Witness ==
    /\ stage = "open"
    /\ DOMAIN write_cache # {}
    /\ \E i \in 1..Len(hist) :
          hist[i].op = "put_keyed" /\ hist[i].k \in DOMAIN index /\ hist[i].ret = OkUnit

\* C2: get returns Some of the `length` bytes at `offset` of the reader for
\* a CID of the index that is not cached, Some of the cached bytes for a
\* cached CID that is not in the index, and None for a CID in neither.
C2_ReadMatrix ==
    [][\A t \in Threads : GetReturned(t) =>
          LET k == arg[t].k
              r == Last(hist').ret
          IN /\ (k \in DOMAIN index /\ k \notin DOMAIN write_cache) =>
                    /\ r.tag = "Some"
                    /\ Len(r.val) = index[k].length
                    /\ \A i \in 1..Len(r.val) : r.val[i] = reader[index[k].offset + i]
             /\ (k \notin DOMAIN index /\ k \in DOMAIN write_cache) =>
                    r = Some(write_cache[k])
             /\ (k \notin DOMAIN index /\ k \notin DOMAIN write_cache) =>
                    r = None]_vars

\* C3: a second put_keyed(cid, b) with the same b, for a CID that is not in
\* the index, returns Ok and changes neither the write cache nor the index,
\* and a get(cid) that starts after it returns Some(b).
C3_SecondPutSameBytes ==
    /\ [][\A t \in Threads :
             (/\ PutHandled(t)
              /\ arg[t].k \notin DOMAIN index
              /\ \E i \in 1..Len(hist) : IsPutOk(i, arg[t].k, arg[t].block))
             => /\ pc'[t] = "idle"
                /\ Last(hist').ret = OkUnit
                /\ write_cache' = write_cache
                /\ index' = index]_vars
    /\ [](\A i, j, m \in 1..Len(hist) :
             (/\ i < j
              /\ hist[i].k \notin DOMAIN index
              /\ IsPutOk(i, hist[i].k, hist[i].block)
              /\ IsPutOk(j, hist[i].k, hist[i].block)
              /\ hist[m].op = "get"
              /\ hist[m].k = hist[i].k
              /\ StartedAfter(m, j))
             => hist[m].ret = Some(hist[i].block))

\* put_keyed(cid, b) twice, one after the other, then get(cid)
C3_Witness ==
    /\ Len(hist) = 3
    /\ hist[1].k \notin DOMAIN index
    /\ IsPutOk(1, hist[1].k, hist[1].block)
    /\ IsPutOk(2, hist[1].k, hist[1].block)
    /\ StartedAfter(2, 1)
    /\ hist[3].op = "get"
    /\ hist[3].k = hist[1].k
    /\ StartedAfter(3, 2)
    /\ hist[3].ret = Some(hist[1].block)

\* C4: after put_keyed(cid, b1) for a CID that is not in the index,
\* put_keyed(cid, b2) with other bytes panics instead of returning, and no
\* entry of the write cache is ever replaced.
C4_SecondPutOtherBytesPanics ==
    [][/\ \A t \in Threads :
             (/\ PutHandled(t)
              /\ arg[t].k \notin DOMAIN index
              /\ \E i \in 1..Len(hist) : \E b \in PutBlocks :
                    b # arg[t].block /\ IsPutOk(i, arg[t].k, b))
             => /\ pc'[t] = "panicked"
                /\ Last(hist').ret.tag = "Panic"
                /\ write_cache' = write_cache
       /\ \A k \in DOMAIN write_cache :
             k \in DOMAIN write_cache' /\ write_cache'[k] = write_cache[k]]_vars

\* put_keyed(cid, b1) returned Ok, put_keyed(cid, b2) panicked, b1 is cached
C4_Witness ==
    \E i, j \in 1..Len(hist) :
        /\ i < j
        /\ hist[i].k \notin DOMAIN index
        /\ IsPutOk(i, hist[i].k, hist[i].block)
        /\ hist[j].op = "put_keyed"
        /\ hist[j].k = hist[i].k
        /\ hist[j].block # hist[i].block
        /\ hist[j].ret = Panicked("Mismatched")
        /\ write_cache[hist[i].k] = hist[i].block

\* the bytes of the reader the index gives for k are exactly bs
OnDisk(k, bs) ==
    /\ Len(bs) = index[k].length
    /\ index[k].offset + index[k].length <= Len(reader)
    /\ \A i \in 1..Len(bs) : bs[i] = reader[index[k].offset + i]

\* C5: put_keyed of a CID of the index, with any bytes, returns Ok without
\* a panic, changes neither the write cache nor the index, and a get of
\* that CID that follows returns the on-disk bytes.
C5_PutOfIndexedCid ==
    /\ [][\A t \in Threads :
             (PutHandled(t) /\ arg[t].k \in DOMAIN index)
             => /\ pc'[t] = "idle"
                /\ Last(hist').ret = OkUnit
                /\ write_cache' = write_cache
                /\ index' = index]_vars
    /\ [](\A i, j \in 1..Len(hist) :
             (/\ hist[i].op = "put_keyed"
              /\ hist[i].k \in DOMAIN index
              /\ hist[j].op = "get"
              /\ hist[j].k = hist[i].k
              /\ StartedAfter(j, i))
             => hist[j].ret.tag = "Some" /\ OnDisk(hist[j].k, hist[j].ret.val))

(***************************************************************************)
(* A handle whose write cache holds a CID of its index.  No call of get    *)
(* or put_keyed leads there (C1); the state is the one the eviction arm    *)
(* of get is written for.                                                  *)
(***************************************************************************)
EvictInit ==
    /\ reader \in ValidV1
    /\ PlainCarNew(reader).kind = "Ok"
    /\ stage = "open"
    /\ new_err = ""
    /\ version = PlainCarNew(reader).version
    /\ header_v1 = PlainCarNew(reader).roots
    /\ header_v2 = PlainCarNew(reader).header_v2
    /\ index = PlainCarNew(reader).index
    /\ \E k \in DOMAIN index : \E b \in PutBlocks : write_cache = [c \in {k} |-> b]
    /\ rd = [l \in Locks |-> {}]
    /\ wr = [l \in Locks |-> "none"]
    /\ pc = [t \in Threads |-> "idle"]
    /\ arg = [t \in Threads |-> NoArg]
    /\ hist = <<>>
    /\ ImporterIdle
    /\ StartupIdle
    /\ SidecarIdle
    /\ MappingsIdle

FairSpecEvict ==
    EvictInit /\ [][ThreadNext]_vars /\ \A t \in Threads : WF_vars(CallStep(t))

C7_LockOrder ==
    \A t \in Threads :
        /\ (WaitsRead(t) = "index" \/ WaitsWrite(t) = "index")
               => (t \notin rd["cache"] /\ wr["cache"] # t)
        /\ (t \in rd["cache"] => t \in rd["index"])
        /\ (wr["cache"] = t => wr["index"] = t)
        /\ arg[t].op = "get"
               => /\ WaitsWrite(t) = "none"
                  /\ \A l \in Locks : wr[l] # t
                  /\ pc[t] = "g_match" => \A l \in Locks : t \in rd[l]
        /\ arg[t].op = "put_keyed"
               => /\ WaitsRead(t) = "none"
                  /\ \A l \in Locks : t \notin rd[l]
                  /\ pc[t] = "p_handle" => \A l \in Locks : wr[l] = t

\* a put_keyed holds the index write guard and asks for the write cache,
\* while a get waits for the index
C7_Witness ==
    \E t, u \in Threads :
        /\ pc[t] = "p_lock2"
        /\ wr["index"] = t
        /\ WaitsWrite(t) = "cache"
        /\ pc[u] = "g_lock1"

\* t is inside a call
InCall(t) == pc[t] \notin {"idle", "panicked"}

\* C8: in no state is every unfinished call blocked on a lock, and every
\* call returns or panics in the end.
C8_NoDeadlock ==
    /\ []((\E t \in Threads : InCall(t))
            => \E t \in Threads : InCall(t) /\ ENABLED CallStep(t))
    /\ \A t \in Threads : InCall(t) ~> ~InCall(t)

\* one call waits for a lock another call holds
C8_Witness ==
    \E t, u \in Threads :
        /\ InCall(t)
        /\ ~ENABLED CallStep(t)
        /\ pc[u] = "p_handle"

\* C9: every block the reference blockstore holds after loading a valid
\* CARv1 or CARv2 stream is returned by get with the same bytes.
C9_RoundTrip ==
    LoadCar(reader).ok =>
        \A i \in 1..Len(hist) : \A b \in ReferenceBlocks(reader) :
            (hist[i].op = "get" /\ hist[i].k = b.cid) => hist[i].ret = Some(b.data)

\* a get of a block of a CARv2 stream
C9_Witness ==
    /\ version = 2
    /\ \E i \in 1..Len(hist) : \E b \in ReferenceBlocks(reader) :
          hist[i].op = "get" /\ hist[i].k = b.cid /\ hist[i].ret = Some(b.data)

\* the CIDs of the block frames in data[pos..stop), each frame skipped by its
\* body length
RECURSIVE FrameCids(_, _, _)
FrameCids(data, pos, stop) ==
    IF pos >= stop \/ pos >= Len(data) THEN {}
    ELSE LET len == ReadVarint(data, pos, VarintMaxU32)
         IN {SubSeq(data, len.pos + 1, ReadCid(data, len.pos).pos)}
                \cup FrameCids(data, len.pos + len.val, stop)

\* the CIDs of the block frames of the v1 data section of an opened archive
DataSectionCids(data) ==
    IF version = 2
    THEN FrameCids(data, read_v1_header(data, header_v2.data_offset.u).pos,
                   header_v2.data_offset.u + header_v2.data_size.u)
    ELSE FrameCids(data, read_v1_header(data, 0).pos, Len(data))

\* C10: the index of an opened archive holds the CID of every block frame
\* of the v1 data section and no other CID, and get on a handle nothing was
\* written to returns None for every CID of no block frame.
C10_IndexCompleteness ==
    stage = "open" =>
        /\ DOMAIN index = DataSectionCids(reader)
        /\ (\A t \in Threads : arg[t].op # "put_keyed")
              /\ (\A i \in 1..Len(hist) : hist[i].op = "get")
           => \A i \in 1..Len(hist) :
                 hist[i].k \notin DataSectionCids(reader) => hist[i].ret = None

\* a CARv2 archive whose index section reads as a block frame: get of that
\* frame's CID returns None
C10_Witness ==
    /\ stage = "open"
    /\ version = 2
    /\ \A i \in 1..Len(hist) : hist[i].op = "get"
    /\ \E i \in 1..Len(hist) :
          /\ hist[i].k = MkCid(OtherPayload)
          /\ hist[i].k \notin DataSectionCids(reader)
          /\ hist[i].ret = None

\* where the v1 stream of an opened archive starts, and where its data
\* section stops
DataStart == IF version = 2 THEN header_v2.data_offset.u ELSE 0

DataStop ==
    IF version = 2
    THEN SaturatingAdd(header_v2.data_offset.u, header_v2.data_size.u)
    ELSE Len(reader)

\* the block frames in data[pos..stop) in stream order, each with its CID
\* and the place of its block data, each frame skipped by its body length
RECURSIVE FrameLocations(_, _, _)
FrameAt(data, len, cid) ==
    [cid |-> cid.cid, offset |-> cid.pos, length |-> len.pos + len.val - cid.pos]

FrameLocationsOf(data, stop, len) ==
    <<FrameAt(data, len, ReadCid(data, len.pos))>>
        \o FrameLocations(data, len.pos + len.val, stop)

FrameLocations(data, pos, stop) ==
    IF pos >= stop \/ pos >= Len(data) THEN <<>>
    ELSE FrameLocationsOf(data, stop, ReadVarint(data, pos, VarintMaxU32))

\* the block frames of the data section of the opened archive
DataSectionFrames ==
    FrameLocations(reader, read_v1_header(reader, DataStart).pos, DataStop)

\* frames[i] is the first frame of its CID
IsFirstOccurrence(frames, i) ==
    \A j \in 1..(i - 1) : frames[j].cid # frames[i].cid

HasPragma(data) ==
    /\ Len(data) >= 1 + Len(CAR_V2_PRAGMA)
    /\ SubSeq(data, 1, 1 + Len(CAR_V2_PRAGMA)) = <<Len(CAR_V2_PRAGMA)>> \o CAR_V2_PRAGMA

\* the frame at data[pos..] is the v1 header frame with these roots
HeaderFrameAt(data, pos, roots) ==
    /\ pos + Len(Frame(HeaderBody(1, roots))) <= Len(data)
    /\ SubSeq(data, pos + 1, pos + Len(Frame(HeaderBody(1, roots))))
          = Frame(HeaderBody(1, roots))

\* C12: an opened archive that begins with the CARv2 pragma has version 2
\* and its v1 header is the frame at data_offset; an opened archive that
\* does not has version 1 and its v1 header is the first frame.
C12_VersionDetection ==
    stage = "open" =>
        IF HasPragma(reader)
        THEN /\ version = 2
             /\ header_v2.present
             /\ HeaderFrameAt(reader, header_v2.data_offset.u, header_v1)
        ELSE /\ version = 1
             /\ ~header_v2.present
             /\ HeaderFrameAt(reader, 0, header_v1)

\* an opened CARv2 archive whose v1 stream does not follow the header at once
C12_Witness ==
    /\ stage = "open"
    /\ HasPragma(reader)
    /\ version = 2
    /\ header_v2.data_offset.u > V2HeaderLen
    /\ HeaderFrameAt(reader, header_v2.data_offset.u, header_v1)

(***************************************************************************)
(* PlainCar::new alone, on a wider set of readers: every prefix of a       *)
(* CARv1 and of a CARv2 stream, and v1 headers of other versions.          *)
(***************************************************************************)
Prefixes(s) == {SubSeq(s, 1, n) : n \in 0..Len(s)}

HeaderVersions == 0..3

\* streams whose v1 header carries each of the versions, bare and in a CARv2
\* envelope
VersionedHeaders ==
    {Frame(HeaderBody(v, Roots)) \o BlockFrame(Block(<<7>>)) : v \in HeaderVersions}
        \cup {CarV2(Frame(HeaderBody(v, Roots)) \o BlockFrame(Block(<<7>>)), V2Trailer) :
                 v \in HeaderVersions}

\* 2^32 + n as a varint of five bytes
VarintAbove32(n) == <<n + 128, 128, 128, 128, 16>>

\* a CARv1 stream whose block frame declares a body of 2^32 + 6 bytes
OversizeLength ==
    Frame(HeaderBody(1, Roots)) \o VarintAbove32(Len(MkCid(<<7>>)) + 1)
        \o MkCid(<<7>>) \o <<7>>

NewInputs ==
    Inputs \cup VersionedHeaders \cup {OversizeLength}
        \cup Prefixes(CarV1(Roots, <<Block(<<8, 9>>), Block(<<7>>)>>))
        \cup Prefixes(PaddedV2)

InitNew ==
    /\ reader \in NewInputs
    /\ stage = "init"
    /\ new_err = ""
    /\ version = 0
    /\ header_v1 = <<>>
    /\ header_v2 = NoHeaderV2
    /\ index = EmptyMap
    /\ write_cache = EmptyMap
    /\ rd = [l \in Locks |-> {}]
    /\ wr = [l \in Locks |-> "none"]
    /\ pc = [t \in Threads |-> "idle"]
    /\ arg = [t \in Threads |-> NoArg]
    /\ hist = <<>>
    /\ ImporterIdle
    /\ StartupIdle
    /\ SidecarIdle
    /\ MappingsIdle

SpecNew == InitNew /\ [][New]_vars

\* the v2 header of data, as its bytes lay it out: where the v1 stream starts
\* and where the data section stops (Len(data) without a pragma)
WireStart(data) ==
    IF HasPragma(data) /\ Len(data) >= V2HeaderLen
    THEN DecodeI64(SubSeq(data, 28, 35)).u ELSE 0

WireStop(data) ==
    IF HasPragma(data) /\ Len(data) >= V2HeaderLen
    THEN SaturatingAdd(WireStart(data), DecodeI64(SubSeq(data, 36, 43)).u)
    ELSE Len(data)

\* data carries, where its v1 stream starts, a header frame of this version
\* with some roots, and no block frame after it in the data section
HeaderOnly(data, v) ==
    \E roots \in {Roots} :
        LET f == Frame(HeaderBody(v, roots))
            at == WireStart(data)
        IN /\ (HasPragma(data) => Len(data) >= V2HeaderLen)
           /\ at + Len(f) <= Len(data)
           /\ SubSeq(data, at + 1, at + Len(f)) = f
           /\ (at + Len(f) >= Len(data) \/ at + Len(f) >= WireStop(data))

\* C13: new on an archive with a valid header and no block frame (none
\* before the CARv2 limit) fails with InvalidData, and no opened handle has
\* an empty index.
C13_ZeroBlocksRefused ==
    /\ (stage # "init" /\ HeaderOnly(reader, 1))
           => (stage = "failed" /\ new_err = "InvalidData")
    /\ stage = "open" => DOMAIN index # {}

\* new has refused a CARv2 archive whose data section is the header alone
C13_Witness ==
    /\ stage = "failed"
    /\ new_err = "InvalidData"
    /\ HasPragma(reader)
    /\ HeaderOnly(reader, 1)

\* data carries, where its v1 stream starts, a well-formed header frame of
\* version v
HeaderOfVersion(data, v) ==
    /\ (HasPragma(data) => Len(data) >= V2HeaderLen)
    /\ WireStart(data) + Len(Frame(HeaderBody(v, Roots))) <= Len(data)
    /\ SubSeq(data, WireStart(data) + 1,
              WireStart(data) + Len(Frame(HeaderBody(v, Roots))))
          = Frame(HeaderBody(v, Roots))

\* C14: when the v1 header frame decodes and its version is not 1, new
\* fails with Unsupported and no handle is made.
C14_OtherVersionUnsupported ==
    \A v \in HeaderVersions \ {1} :
        (stage # "init" /\ HeaderOfVersion(reader, v))
            => /\ stage = "failed"
               /\ new_err = "Unsupported"
               /\ index = EmptyMap

\* new has refused a CARv2 archive whose v1 header has version 0
C14_Witness ==
    /\ stage = "failed"
    /\ new_err = "Unsupported"
    /\ HasPragma(reader)
    /\ HeaderOfVersion(reader, 0)

\* the CARv2 header of data carries a negative data_offset or data_size
NegativeOnWire(data) ==
    /\ HasPragma(data)
    /\ Len(data) >= V2HeaderLen
    /\ (DecodeI64(SubSeq(data, 28, 35)).neg \/ DecodeI64(SubSeq(data, 36, 43)).neg)

\* C15: new on a CARv2 archive with a negative data_offset or a negative
\* data_size fails with InvalidData; the archive is never opened.
C15_NegativeOffsetsRefused ==
    (stage # "init" /\ NegativeOnWire(reader))
        => (stage = "failed" /\ new_err = "InvalidData")

\* the block frames of data's data section, as the bytes lay them out
WireFrames(data) ==
    IF read_v1_header(data, WireStart(data)).kind = "Ok"
    THEN FrameLocations(data, read_v1_header(data, WireStart(data)).pos, WireStop(data))
    ELSE <<>>

\* a block frame of data declares a body that runs past the end of data
BodyPastEnd(data) ==
    LET frames == WireFrames(data)
    IN \E i \in 1..Len(frames) : frames[i].offset + frames[i].length > Len(data)

\* C16: new fails with InvalidData on an archive with a block frame whose
\* declared body runs past the end of the input, and every location of an
\* opened handle's index lies inside the input.
C16_TruncatedFrameRefused ==
    /\ (stage # "init" /\ BodyPastEnd(reader))
           => (stage = "failed" /\ new_err = "InvalidData")
    /\ stage = "open" =>
           \A c \in DOMAIN index : index[c].offset + index[c].length <= Len(reader)

\* C17: new returns Ok or an error on every input; it never panics.
C17_NewNeverPanics == stage # "panicked"

(***************************************************************************)
(* The snapshot importer, import_chain_as_forest_car.  A file is kept as   *)
(* what the importer can tell of it: its format (a forest car, a plain     *)
(* CAR, or anything else), the epoch of the heaviest tipset its roots      *)
(* load to (NoTipset when they load to none), and its inode.  The managed  *)
(* directory holds the final path and the two temporary paths of the call. *)
(***************************************************************************)
ImportModes == {"Auto", "Copy", "Move", "Symlink", "Hardlink"}

NoTipset == -1

Epochs == {0, 4}

File(format, tipset, inode) ==
    [kind |-> "file", exists |-> TRUE, format |-> format, tipset |-> tipset,
     inode |-> inode]

\* a symbolic link to the absolute from_path
Symlink == [kind |-> "symlink", exists |-> TRUE, format |-> "-", tipset |-> 0, inode |-> 0]

\* the inode of the file at from_path, and of the files created at the two
\* temporary paths
SourceInode == 1

TempInode(name) == IF name = "tmp1" THEN 2 ELSE 3

\* what from_path can name: a local file or a URL, of each format, with and
\* without a loadable heaviest tipset, and a path or URL with nothing behind
Sources ==
    {[kind |-> k, exists |-> TRUE, format |-> f, tipset |-> e, inode |-> SourceInode] :
        k \in {"file", "url"}, f \in {"forest", "car"}, e \in Epochs \cup {NoTipset}}
    \cup {[kind |-> k, exists |-> TRUE, format |-> "junk", tipset |-> NoTipset,
           inode |-> SourceInode] : k \in {"file", "url"}}
    \cup {[kind |-> k, exists |-> FALSE, format |-> "-", tipset |-> NoTipset,
           inode |-> 0] : k \in {"file", "url"}}

store == <<handle, write_cache, rd, wr, pc, arg, hist>>

\* what the importer leaves alone
beside_import == <<store, startup, f3, eth>>

InitImport ==
    /\ source \in Sources
    /\ car_db = EmptyDir
    /\ import = NotImporting
    /\ reader = <<>>
    /\ stage = "init"
    /\ new_err = ""
    /\ version = 0
    /\ header_v1 = <<>>
    /\ header_v2 = NoHeaderV2
    /\ index = EmptyMap
    /\ write_cache = EmptyMap
    /\ rd = [l \in Locks |-> {}]
    /\ wr = [l \in Locks |-> "none"]
    /\ pc = [t \in Threads |-> "idle"]
    /\ arg = [t \in Threads |-> NoArg]
    /\ hist = <<>>
    /\ StartupIdle
    /\ SidecarIdle
    /\ MappingsIdle

\* directory entries written and removed
Put(db, name, entry) ==
    [n \in DOMAIN db \cup {name} |-> IF n = name THEN entry ELSE db[n]]

Remove(db, names) == [n \in DOMAIN db \ names |-> db[n]]

TempNames == {"tmp1", "tmp2"}

\* a TempPath that is dropped removes its file
DropTemps(db) == Remove(db, TempNames)

\* TempPath::persist: the rename of a temporary path to the final path
Persist(db, name) == Remove(Put(db, "final", db[name]), {name})

\* the file a path of the directory leads to
Resolve(entry) == IF entry.kind = "symlink" THEN source ELSE entry

\* Url::parse(from_path) succeeds
IsUrl == source.kind = "url"

\* EitherMmapOrRandomAccessFile::open(from_path) succeeds
CanOpenSource == source.kind = "file" /\ source.exists

\* ForestCar::is_valid
is_valid(file) == file.exists /\ file.format = "forest"

\* the call goes on at position p, with `mode` handed to move_or_copy
GoOn(p, mode) == import' = [import EXCEPT !.pc = p, !.mode = mode]

\* the call returns an error: the temporary paths it holds are dropped
ReturnErr(db) ==
    /\ car_db' = DropTemps(db)
    /\ import' = [import EXCEPT !.pc = "done", !.ret = "Err"]

\* import_chain_as_forest_car(from_path, forest_car_db_dir, import_mode, ..)
ImportChain(m) ==
    /\ import = NotImporting
    /\ import' = [pc |-> "match", import_mode |-> m, mode |-> "-", ret |-> "-", ts |-> 0]
    /\ UNCHANGED <<source, car_db, beside_import>>

\* ImportAuto that falls back to Move when the hard link fails
ImportAuto_FallsBackToMove ==
    /\ import.pc = "match"
    /\ import.import_mode = "Auto"
    /\ IF IsUrl THEN GoOn("mc_temp", "Move") /\ UNCHANGED car_db
       ELSE IF ~CanOpenSource THEN ReturnErr(car_db)
       ELSE IF is_valid(source)
            THEN \/ /\ "final" \notin DOMAIN car_db
                    /\ car_db' = Put(car_db, "final", source)
                    /\ GoOn("load", "-")
                 \/ GoOn("mc_temp", "Move") /\ UNCHANGED car_db
            ELSE GoOn("mc_temp", "Copy") /\ UNCHANGED car_db
    /\ UNCHANGED <<source, beside_import>>

\* ImportMode::Auto: a URL is moved, a valid forest car is hard linked and,
\* should the link fail, copied; any other file is copied.  hard_link and
\* symlink fail when there is a file at the final path already.
ImportAuto ==
    /\ import.pc = "match"
    /\ import.import_mode = "Auto"
    /\ IF IsUrl THEN GoOn("mc_temp", "Move") /\ UNCHANGED car_db
       ELSE IF ~CanOpenSource THEN ReturnErr(car_db)
       ELSE IF is_valid(source)
            THEN \/ /\ "final" \notin DOMAIN car_db
                    /\ car_db' = Put(car_db, "final", source)
                    /\ GoOn("load", "-")
                 \/ GoOn("mc_temp", "Copy") /\ UNCHANGED car_db
            ELSE GoOn("mc_temp", "Copy") /\ UNCHANGED car_db
    /\ UNCHANGED <<source, beside_import>>

\* ImportMode::Copy | ImportMode::Move
ImportCopyOrMove ==
    /\ import.pc = "match"
    /\ import.import_mode \in {"Copy", "Move"}
    /\ GoOn("mc_temp", import.import_mode)
    /\ UNCHANGED <<source, car_db, beside_import>>

\* ImportSymlink that links whatever file it is given
ImportSymlink_Unchecked ==
    /\ import.pc = "match"
    /\ import.import_mode = "Symlink"
    /\ IF ~CanOpenSource THEN ReturnErr(car_db)
       ELSE \/ /\ "final" \notin DOMAIN car_db
               /\ car_db' = Put(car_db, "final", Symlink)
               /\ GoOn("load", "-")
            \/ ReturnErr(car_db)
    /\ UNCHANGED <<source, beside_import>>

\* ImportMode::Symlink
ImportSymlink ==
    /\ import.pc = "match"
    /\ import.import_mode = "Symlink"
    /\ IF ~CanOpenSource THEN ReturnErr(car_db)
       ELSE IF is_valid(source)
            THEN \/ /\ "final" \notin DOMAIN car_db
                    /\ car_db' = Put(car_db, "final", Symlink)
                    /\ GoOn("load", "-")
                 \/ ReturnErr(car_db)
            ELSE ReturnErr(car_db)
    /\ UNCHANGED <<source, beside_import>>

\* ImportMode::Hardlink
ImportHardlink ==
    /\ import.pc = "match"
    /\ import.import_mode = "Hardlink"
    /\ IF ~CanOpenSource THEN ReturnErr(car_db)
       ELSE IF is_valid(source)
            THEN \/ /\ "final" \notin DOMAIN car_db
                    /\ car_db' = Put(car_db, "final", source)
                    /\ GoOn("load", "-")
                 \/ ReturnErr(car_db)
            ELSE ReturnErr(car_db)
    /\ UNCHANGED <<source, beside_import>>

\* move_or_copy: new_forest_car_temp_path_in makes downloaded_car_temp_path
NewTempPath ==
    /\ import.pc = "mc_temp"
    /\ \/ /\ car_db' = Put(car_db, "tmp1", File("empty", NoTipset, TempInode("tmp1")))
          /\ GoOn(IF IsUrl THEN "mc_download" ELSE "mc_file", import.mode)
       \/ ReturnErr(car_db)
    /\ UNCHANGED <<source, beside_import>>

\* the file at from_path, copied to another inode
Copied(name) == File(source.format, source.tipset, TempInode(name))

\* move_or_copy_file that copies in Move mode as well
MoveOrCopyFile_AlwaysCopies ==
    /\ import.pc = "mc_file"
    /\ \/ /\ source.exists
          /\ car_db' = Put(car_db, "tmp1", Copied("tmp1"))
          /\ source' = source
          /\ GoOn("mc_valid", import.mode)
       \/ /\ ReturnErr(car_db)
          /\ source' = source
    /\ UNCHANGED beside_import

\* move_or_copy_file(from_path, downloaded_car_temp_path, mode): Move renames,
\* or copies and removes the original; Copy copies
MoveOrCopyFile ==
    /\ import.pc = "mc_file"
    /\ \/ /\ import.mode = "Move"
          /\ source.exists
          /\ car_db' = Put(car_db, "tmp1", source)
          /\ source' = [source EXCEPT !.exists = FALSE]
          /\ GoOn("mc_valid", import.mode)
       \/ /\ import.mode = "Move"
          /\ source.exists
          /\ car_db' = Put(car_db, "tmp1", Copied("tmp1"))
          /\ source' = [source EXCEPT !.exists = FALSE]
          /\ GoOn("mc_valid", import.mode)
       \/ /\ import.mode = "Copy"
          /\ source.exists
          /\ car_db' = Put(car_db, "tmp1", Copied("tmp1"))
          /\ source' = source
          /\ GoOn("mc_valid", import.mode)
       \/ \* the copy, or the removal of the original after it, has failed
          /\ ReturnErr(car_db)
          /\ source' = source
    /\ UNCHANGED beside_import

\* download_to(url, downloaded_car_temp_path, ..).await
Download ==
    /\ import.pc = "mc_download"
    /\ \/ /\ source.exists
          /\ car_db' = Put(car_db, "tmp1", Copied("tmp1"))
          /\ GoOn("mc_valid", import.mode)
       \/ ReturnErr(car_db)
    /\ UNCHANGED <<source, beside_import>>

\* Validate that persists the staged file without looking at it
Validate_PersistsUnchecked ==
    /\ import.pc = "mc_valid"
    /\ \/ /\ car_db' = Persist(car_db, "tmp1")
          /\ GoOn("load", import.mode)
       \/ /\ ~is_valid(car_db["tmp1"])
          /\ car_db' = Put(car_db, "tmp2", File("empty", NoTipset, TempInode("tmp2")))
          /\ GoOn("mc_transcode", import.mode)
       \/ ReturnErr(car_db)
    /\ UNCHANGED <<source, beside_import>>

\* move_or_copy: a staged file that is a valid forest car is persisted, any
\* other gets a second temporary path to be transcoded into
Validate ==
    /\ import.pc = "mc_valid"
    /\ \/ /\ is_valid(car_db["tmp1"])
          /\ car_db' = Persist(car_db, "tmp1")
          /\ GoOn("load", import.mode)
       \/ /\ ~is_valid(car_db["tmp1"])
          /\ car_db' = Put(car_db, "tmp2", File("empty", NoTipset, TempInode("tmp2")))
          /\ GoOn("mc_transcode", import.mode)
       \/ ReturnErr(car_db)
    /\ UNCHANGED <<source, beside_import>>

\* Transcode that makes a forest car of whatever it is given
Transcode_AnyInput ==
    /\ import.pc = "mc_transcode"
    /\ \/ /\ car_db' = DropTemps(Persist(
                 Put(car_db, "tmp2",
                     File("forest", car_db["tmp1"].tipset, TempInode("tmp2"))),
                 "tmp2"))
          /\ GoOn("load", import.mode)
       \/ ReturnErr(car_db)
    /\ UNCHANGED <<source, beside_import>>

\* transcode_into_forest_car(..).await, then persist; the staged file is
\* dropped at the end of move_or_copy
Transcode ==
    /\ import.pc = "mc_transcode"
    /\ \/ /\ car_db["tmp1"].format = "car"
          /\ car_db' = DropTemps(Persist(
                 Put(car_db, "tmp2",
                     File("forest", car_db["tmp1"].tipset, TempInode("tmp2"))),
                 "tmp2"))
          /\ GoOn("load", import.mode)
       \/ ReturnErr(car_db)
    /\ UNCHANGED <<source, beside_import>>

\* ForestCar::try_from(forest_car_db_path)?.heaviest_tipset()?
LoadTipset ==
    /\ import.pc = "load"
    /\ LET car == Resolve(car_db["final"])
       IN IF is_valid(car) /\ car.tipset # NoTipset
          THEN import' = [import EXCEPT !.pc = "done", !.ret = "Ok", !.ts = car.tipset]
          ELSE import' = [import EXCEPT !.pc = "done", !.ret = "Err"]
    /\ UNCHANGED <<source, car_db, beside_import>>

\* the future is dropped at one of its awaits: the download or the transcode
Cancel ==
    /\ import.pc \in {"mc_download", "mc_transcode"}
    /\ car_db' = DropTemps(car_db)
    /\ import' = [import EXCEPT !.pc = "done", !.ret = "Cancelled"]
    /\ UNCHANGED <<source, beside_import>>

ImportNext ==
    \/ \E m \in ImportModes : ImportChain(m)
    \/ ImportAuto
    \/ ImportCopyOrMove
    \/ ImportSymlink
    \/ ImportHardlink
    \/ NewTempPath
    \/ MoveOrCopyFile
    \/ Download
    \/ Validate
    \/ Transcode
    \/ LoadTipset
    \/ Cancel

SpecImport == InitImport /\ [][ImportNext]_vars

\* the call has returned, or its future was dropped
ImportEnded == import.pc = "done"

\* C18: after import_chain_as_forest_car has returned Ok, none of its
\* temporary files is left in the managed directory; after it has returned
\* an error, or was dropped before its end, there is no file at its final
\* path.
C18_ImportAtomicity ==
    /\ import.ret = "Ok" => DOMAIN car_db \cap TempNames = {}
    /\ import.ret \in {"Err", "Cancelled"} => "final" \notin DOMAIN car_db

\* the source is one that Symlink and Hardlink must refuse
NotLinkable == IsUrl \/ ~is_valid(source)

\* C19: in Symlink and in Hardlink mode, an import from a URL or from a
\* local file that is no valid forest car returns an error, puts nothing
\* into the managed directory and leaves the source as it was.
C19_LinkModesRefuse ==
    /\ []((import.import_mode \in {"Symlink", "Hardlink"} /\ NotLinkable)
            => /\ car_db = EmptyDir
               /\ import.ret \in {"-", "Err"}
               /\ ImportEnded => import.ret = "Err")
    /\ [][(import.import_mode \in {"Symlink", "Hardlink"} /\ NotLinkable)
            => source' = source]_vars

\* a Symlink import of a plain CAR file has returned its error
C19_Witness ==
    /\ import.import_mode = "Symlink"
    /\ source.kind = "file"
    /\ source.format = "car"
    /\ ImportEnded
    /\ import.ret = "Err"
    /\ car_db = EmptyDir

\* C20: after an import of a local file has returned Ok: in Move mode the
\* source path is gone and the destination is a regular file; in Symlink
\* mode the destination is a symbolic link to the source; in Auto, Copy and
\* Hardlink mode the source is still there and the destination is a file, in
\* Hardlink mode of the source's inode; the tipset returned is the heaviest
\* tipset of the source, of epoch > 0 for a snapshot of such a tipset.
C20_ModeOutcomes ==
    (import.ret = "Ok" /\ source.kind = "file") =>
        /\ "final" \in DOMAIN car_db
        /\ import.import_mode = "Move"
              => ~source.exists /\ car_db["final"].kind = "file"
        /\ import.import_mode = "Symlink"
              => source.exists /\ car_db["final"].kind = "symlink"
        /\ import.import_mode \in {"Auto", "Copy", "Hardlink"}
              => source.exists /\ car_db["final"].kind = "file"
        /\ import.import_mode = "Hardlink"
              => car_db["final"].inode = source.inode
        /\ import.ts = source.tipset
        /\ source.tipset > 0 => import.ts > 0

\* a Move import of a plain CAR file has returned Ok
C20_Witness ==
    /\ import.ret = "Ok"
    /\ import.import_mode = "Move"
    /\ source.kind = "file"
    /\ source.format = "car"
    /\ ~source.exists
    /\ car_db["final"].kind = "file"
    /\ import.ts > 0

\* C21: in Auto mode with a local source that is a valid forest car the
\* first step is a hard link of the source to the final path; when the link
\* fails the Copy path is entered, from there only, hence once, always as
\* Copy, and an error of that path ends the call; in Auto mode with any
\* local source the source file is never renamed or removed.
C21_AutoFallsBackToCopyOnce ==
    [][(import'.import_mode = "Auto" /\ source.kind = "file") =>
          /\ source' = source
          /\ import'.mode \in {"-", "Copy"}
          /\ (import.pc = "match" /\ is_valid(source)) =>
                \/ /\ car_db' = Put(car_db, "final", source)
                   /\ import'.pc = "load"
                \/ /\ car_db' = car_db
                   /\ import'.pc = "mc_temp"
                   /\ import'.mode = "Copy"
          /\ import'.pc = "mc_temp" => import.pc = "match"
          /\ import'.pc = "match" => import.pc = "-"
          /\ (import.mode = "Copy" /\ import'.ret = "Err" /\ import.pc # "load")
                => import'.pc = "done" /\ "final" \notin DOMAIN car_db'
      ]_vars

\* an Auto import of a valid forest car whose hard link failed has returned
\* Ok from the Copy path: the destination is another file than the source
C21_Witness ==
    /\ import.import_mode = "Auto"
    /\ source.kind = "file"
    /\ is_valid(source)
    /\ import.mode = "Copy"
    /\ import.ret = "Ok"
    /\ car_db["final"].inode # source.inode

\* C22: the staged file is renamed to the final path only when it has passed
\* is_valid; one that has not is transcoded into a second temporary file,
\* and that file is renamed to the final path by the step that ends the
\* transcoding; so the file at the final path is at every moment a valid
\* forest car.
C22_OnlyValidPersisted ==
    /\ []("final" \in DOMAIN car_db => is_valid(Resolve(car_db["final"])))
    /\ [][("final" \in DOMAIN car_db' /\ "final" \notin DOMAIN car_db
               /\ import.pc \in {"mc_valid", "mc_transcode"}) =>
             IF import.pc = "mc_valid"
             THEN is_valid(car_db["tmp1"]) /\ car_db'["final"] = car_db["tmp1"]
             ELSE /\ ~is_valid(car_db["tmp1"])
                  /\ car_db'["final"].inode = TempInode("tmp2")
                  /\ car_db'["final"].inode # car_db["tmp1"].inode
                  /\ is_valid(car_db'["final"])
          ]_vars

\* the output of a transcode is at the final path
C22_Witness ==
    /\ "final" \in DOMAIN car_db
    /\ car_db["final"].inode = TempInode("tmp2")
    /\ import.mode \in {"Copy", "Move"}
    /\ source.format = "car"

\* from_path is a local path with no file, a URL with nothing to download,
\* or a local file that is neither a CAR nor a forest car
NoSnapshotAtSource ==
    \/ source.format = "-"
    \/ source.kind = "file" /\ source.format = "junk"

\* C23: in every import mode, an import from a local path that does not
\* exist, from a URL that cannot be downloaded, or from a local file that is
\* neither a CAR nor a forest car never returns Ok, has returned an error
\* when it has run to its end, and never has a file at the final path.
C23_BadSourceFails ==
    NoSnapshotAtSource =>
        /\ import.ret # "Ok"
        /\ (ImportEnded /\ import.ret # "Cancelled") => import.ret = "Err"
        /\ "final" \notin DOMAIN car_db

\* a Move import of a local file that is no archive has returned its error
C23_Witness ==
    /\ import.import_mode = "Move"
    /\ source.kind = "file"
    /\ source.format = "junk"
    /\ import.ret = "Err"
    /\ "final" \notin DOMAIN car_db

(***************************************************************************)
(* The directory loader, load_all_forest_cars_internal.  A name is the     *)
(* sequence of its parts, the extensions last; an entry of the managed     *)
(* directory is a file, as the importer knows it, or a directory.  The     *)
(* walk yields the entries in any order, and one action is one turn of     *)
(* the loop.                                                               *)
(***************************************************************************)
FOREST_CAR_FILE_EXTENSION == <<".forest.car.zst">>

TEMP_FOREST_CAR_FILE_EXTENSION == <<".forest.car.zst", ".tmp">>

\* str::ends_with
ends_with(name, suffix) ==
    /\ Len(name) >= Len(suffix)
    /\ SubSeq(name, Len(name) - Len(suffix) + 1, Len(name)) = suffix

\* a part of a file name that is no UTF-8
InvalidUtf8 == "\\xFF"

\* file.file_name().and_then(OsStr::to_str)
to_str(name) ==
    IF \E i \in DOMAIN name : name[i] = InvalidUtf8 THEN None ELSE Some(name)

Dir == [kind |-> "dir", exists |-> TRUE, format |-> "-", tipset |-> 0, inode |-> 0]

\* the entries a managed directory may hold: two archives, sound or broken,
\* a stale temporary file, a file of another name, a directory and a file
\* with a name that is no UTF-8, both with the archive extension
EntryChoices ==
    [n \in {<<"1", ".forest.car.zst">>, <<"2", ".forest.car.zst">>}
        |-> {File("forest", 0, 0), File("junk", NoTipset, 0)}]
    @@ (<<"3", ".forest.car.zst", ".tmp">> :> {File("empty", NoTipset, 0)})
    @@ (<<"4", ".car", ".tmp">> :> {File("junk", NoTipset, 0)})
    @@ (<<"5", ".forest.car.zst">> :> {Dir})
    @@ (<<InvalidUtf8, ".forest.car.zst">> :> {File("forest", 0, 0)})

LoaderNames == DOMAIN EntryChoices

Directories ==
    UNION {{d \in [S -> UNION {EntryChoices[n] : n \in S}] :
               \A n \in S : d[n] \in EntryChoices[n]} : S \in SUBSET LoaderNames}

\* an archive registered before the loader is called
PriorArchive == <<"0", ".forest.car.zst">>

\* no PlainCar handle and no import
StoreIdle ==
    /\ reader = <<>>
    /\ stage = "init"
    /\ new_err = ""
    /\ version = 0
    /\ header_v1 = <<>>
    /\ header_v2 = NoHeaderV2
    /\ index = EmptyMap
    /\ write_cache = EmptyMap
    /\ rd = [l \in Locks |-> {}]
    /\ wr = [l \in Locks |-> "none"]
    /\ pc = [t \in Threads |-> "idle"]
    /\ arg = [t \in Threads |-> NoArg]
    /\ hist = <<>>

InitLoader ==
    /\ StoreIdle
    /\ source = NoSource
    /\ import = NotImporting
    /\ SidecarIdle
    /\ MappingsIdle
    /\ loader = NotLoading
    /\ many_car \in {<<>>, <<PriorArchive>>}
    /\ \/ db_dir = "missing" /\ car_db = EmptyDir
       \/ db_dir = "dir" /\ car_db \in Directories

\* what the loader leaves alone
beside_loader == <<source, import, store, f3, eth>>

\* load_all_forest_cars_internal(store, forest_car_db_dir, cleanup)
load_all_forest_cars_internal(cleanup) ==
    /\ loader = NotLoading
    /\ loader' = [NotLoading EXCEPT !.pc = "dir", !.cleanup = cleanup,
                                    !.len0 = Len(many_car)]
    /\ UNCHANGED <<db_dir, car_db, many_car, beside_loader>>

load_all_forest_cars_with_cleanup == load_all_forest_cars_internal(TRUE)

load_all_forest_cars == load_all_forest_cars_internal(FALSE)

\* the loader returns an error, with the path its context names
LoaderErr(path) ==
    loader' = [loader EXCEPT !.pc = "done", !.ret = "Err", !.failed = path]

\* if !forest_car_db_dir.is_dir() { fs::create_dir_all(forest_car_db_dir)?; }
\* and the start of the walk
CreateDirAll ==
    /\ loader.pc = "dir"
    /\ IF db_dir = "dir"
       THEN /\ loader' = [loader EXCEPT !.pc = "walk", !.todo = DOMAIN car_db]
            /\ UNCHANGED db_dir
       ELSE \/ /\ db_dir' = "dir"
               /\ loader' = [loader EXCEPT !.pc = "walk", !.todo = {}]
            \/ /\ LoaderErr(<<>>)
               /\ UNCHANGED db_dir
    /\ UNCHANGED <<car_db, many_car, beside_loader>>

\* the loop goes on with the entries the walk has not yet yielded
NextEntry(n) == loader' = [loader EXCEPT !.todo = @ \ {n}]

\* store.read_only(car.into()) has returned Ok
read_only(path) == many_car' = Append(many_car, path)

\* LoadCarDb that goes on with the walk when an archive does not open
LoadCarDb_SkipsBroken(n) ==
    IF is_valid(car_db[n])
    THEN \/ read_only(n) /\ NextEntry(n)
         \/ LoaderErr(<<>>) /\ UNCHANGED many_car
    ELSE NextEntry(n) /\ UNCHANGED many_car

\* ForestCar::try_from(file).with_context(..)?; store.read_only(car.into())?
LoadCarDb(n) ==
    IF is_valid(car_db[n])
    THEN \/ read_only(n) /\ NextEntry(n)
         \/ LoaderErr(<<>>) /\ UNCHANGED many_car
    ELSE LoaderErr(n) /\ UNCHANGED many_car

\* RemoveTemp that returns the error of a failed removal
RemoveTemp_FailureAborts(n) ==
    \/ /\ car_db' = Remove(car_db, {n})
       /\ loader' = [loader EXCEPT !.todo = @ \ {n}, !.deleted = @ \cup {n}]
    \/ /\ car_db' = car_db
       /\ loader' = [loader EXCEPT !.pc = "done", !.ret = "Err",
                                   !.warned = @ \cup {n}]

\* std::fs::remove_file(&file): Ok is logged as info, Err as a warning
RemoveTemp(n) ==
    \/ /\ car_db' = Remove(car_db, {n})
       /\ loader' = [loader EXCEPT !.todo = @ \ {n}, !.deleted = @ \cup {n}]
    \/ /\ car_db' = car_db
       /\ loader' = [loader EXCEPT !.todo = @ \ {n}, !.warned = @ \cup {n}]

\* SweepBranch that does not look at the cleanup flag
SweepBranch_IgnoresCleanup(n, filename) ==
    IF ends_with(filename, TEMP_FOREST_CAR_FILE_EXTENSION)
    THEN RemoveTemp(n)
    ELSE NextEntry(n) /\ UNCHANGED car_db

\* else if cleanup && filename.ends_with(TEMP_FOREST_CAR_FILE_EXTENSION)
SweepBranch(n, filename) ==
    IF loader.cleanup /\ ends_with(filename, TEMP_FOREST_CAR_FILE_EXTENSION)
    THEN RemoveTemp(n)
    ELSE NextEntry(n) /\ UNCHANGED car_db

\* the body of the loop for an entry with a name that is UTF-8
VisitNamed(n, filename) ==
    IF ends_with(filename, FOREST_CAR_FILE_EXTENSION)
    THEN LoadCarDb(n) /\ UNCHANGED car_db
    ELSE SweepBranch(n, filename) /\ UNCHANGED many_car

\* the filter of the walk and the body of the loop, for the entry n
VisitEntry(n) ==
    IF car_db[n].kind = "dir" \/ to_str(n) = None
    THEN NextEntry(n) /\ UNCHANGED <<car_db, many_car>>
    ELSE VisitNamed(n, to_str(n).val)

\* one turn of the loop: the walk yields an error, which e.ok() drops, or
\* the entry n
WalkEntry(n) ==
    /\ loader.pc = "walk"
    /\ n \in loader.todo
    /\ \/ /\ loader' = [loader EXCEPT !.todo = @ \ {n}, !.unread = @ \cup {n}]
          /\ UNCHANGED <<car_db, many_car>>
       \/ VisitEntry(n)
    /\ UNCHANGED <<db_dir, beside_loader>>

\* the walk is over: "Loaded {} CARs", Ok(())
WalkEnd ==
    /\ loader.pc = "walk"
    /\ loader.todo = {}
    /\ loader' = [loader EXCEPT !.pc = "done", !.ret = "Ok"]
    /\ UNCHANGED <<db_dir, car_db, many_car, beside_loader>>

LoaderNext ==
    \/ load_all_forest_cars_with_cleanup
    \/ load_all_forest_cars
    \/ CreateDirAll
    \/ \E n \in LoaderNames : WalkEntry(n)
    \/ WalkEnd

SpecLoader == InitLoader /\ [][LoaderNext]_vars

\* the file at n has the name of a temporary file, of an archive
IsTempFile(dir, n) ==
    dir[n].kind # "dir" /\ ends_with(n, TEMP_FOREST_CAR_FILE_EXTENSION)

IsArchiveFile(dir, n) ==
    dir[n].kind # "dir" /\ ends_with(n, FOREST_CAR_FILE_EXTENSION)

Appended == SubSeq(many_car, loader.len0 + 1, Len(many_car))

Occurrences(seq, x) == Cardinality({i \in DOMAIN seq : seq[i] = x})

\* C25: when the loader has returned Ok, every file of the managed directory
\* that the walk has yielded and whose name is UTF-8 and ends in
\* `.forest.car.zst` was appended to the store exactly once, and nothing
\* else was; when an archive does not open, the loader returns at once with
\* an error that names its path, and registers nothing more.
C25_LoadsAllOrAborts ==
    /\ [](loader.ret = "Ok" =>
             /\ \A n \in DOMAIN car_db :
                    Occurrences(Appended, n) =
                        IF IsArchiveFile(car_db, n) /\ to_str(n) # None
                           /\ n \notin loader.unread
                        THEN 1 ELSE 0
             /\ \A i \in DOMAIN Appended : Appended[i] \in DOMAIN car_db
             /\ SubSeq(many_car, 1, loader.len0) \in {<<>>, <<PriorArchive>>})
    /\ [](loader.failed # <<>> =>
             /\ loader.ret = "Err"
             /\ loader.failed \in DOMAIN car_db
             /\ IsArchiveFile(car_db, loader.failed)
             /\ ~is_valid(car_db[loader.failed])
             /\ loader.failed \notin {many_car[i] : i \in DOMAIN many_car})
    /\ [][\A n \in loader.todo :
             (loader'.todo = loader.todo \ {n} /\ n \notin loader'.unread
                  /\ to_str(n) # None /\ IsArchiveFile(car_db, n)
                  /\ ~is_valid(car_db[n]))
               => loader'.pc = "done" /\ loader'.failed = n]_vars
    /\ [][loader.pc = "done" => (many_car' = many_car /\ loader' = loader)]_vars

\* the loader has returned the error of the second archive after it had
\* registered the first
C25_Witness ==
    /\ loader.ret = "Err"
    /\ loader.failed = <<"2", ".forest.car.zst">>
    /\ Appended = <<(<<"1", ".forest.car.zst">>)>>
    /\ loader.todo # {}

\* C25 as stated: when the loader has returned Ok, every entry of the
\* managed directory that is no directory and whose name ends in
\* `.forest.car.zst` was appended to the store exactly once, and store.len()
\* has grown by their number; an archive that does not open ends the loader
\* with an error that names its path.
C25_EveryArchiveLoaded ==
    /\ [](loader.ret = "Ok" =>
             /\ \A n \in DOMAIN car_db :
                    IsArchiveFile(car_db, n) => Occurrences(Appended, n) = 1
             /\ Len(many_car) = loader.len0 +
                    Cardinality({n \in DOMAIN car_db : IsArchiveFile(car_db, n)}))
    /\ [](loader.failed # <<>> =>
             /\ loader.ret = "Err"
             /\ ~is_valid(car_db[loader.failed]))
    /\ [][loader.pc = "done" => (many_car' = many_car /\ loader' = loader)]_vars

(***************************************************************************)
(* get_f3_sidecar_params.  A string is the sequence of its characters; an  *)
(* i64 is kept as its sign followed by its decimal digits, without leading *)
(* zeros, so that the limits of the type are those of the type.            *)
(***************************************************************************)
OkVal(v) == [tag |-> "Ok", val |-> v, kind |-> ""]

DigitValue ==
    ("0" :> 0) @@ ("1" :> 1) @@ ("2" :> 2) @@ ("3" :> 3) @@ ("4" :> 4)
    @@ ("5" :> 5) @@ ("6" :> 6) @@ ("7" :> 7) @@ ("8" :> 8) @@ ("9" :> 9)

IsDigit(c) == c \in DOMAIN DigitValue

RECURSIVE StripZeros(_)
StripZeros(digits) ==
    IF Len(digits) > 1 /\ digits[1] = "0" THEN StripZeros(Tail(digits)) ELSE digits

\* a > b, for two numbers written without leading zeros
GreaterDecimal(a, b) ==
    \/ Len(a) > Len(b)
    \/ /\ Len(a) = Len(b)
       /\ \E i \in DOMAIN a :
              /\ DigitValue[a[i]] > DigitValue[b[i]]
              /\ \A j \in 1..(i - 1) : a[j] = b[j]

\* i64::MAX, and the magnitude of i64::MIN
I64MaxDigits ==
    <<"9","2","2","3","3","7","2","0","3","6","8","5","4","7","7","5","8","0","7">>

I64MinDigits ==
    <<"9","2","2","3","3","7","2","0","3","6","8","5","4","7","7","5","8","0","8">>

\* the digits of a signed number, checked against the limits of i64
ParseDigits(negative, digits) ==
    IF digits = <<>> \/ \E i \in DOMAIN digits : ~IsDigit(digits[i])
    THEN Err("InvalidDigit")
    ELSE IF negative
    THEN IF GreaterDecimal(StripZeros(digits), I64MinDigits)
         THEN Err("NegOverflow")
         ELSE IF StripZeros(digits) = <<"0">>
              THEN OkVal(<<"+", "0">>)
              ELSE OkVal(<<"-">> \o StripZeros(digits))
    ELSE IF GreaterDecimal(StripZeros(digits), I64MaxDigits)
         THEN Err("PosOverflow")
         ELSE OkVal(<<"+">> \o StripZeros(digits))

\* str::parse::<i64>: an optional sign, then one decimal digit or more
ParseI64(s) ==
    IF s = <<>> THEN Err("Empty")
    ELSE IF s[1] \in {"+", "-"} THEN ParseDigits(s[1] = "-", Tail(s))
    ELSE ParseDigits(FALSE, s)

\* f > 0
IsPositive(i64) == i64[1] = "+" /\ i64 # <<"+", "0">>

\* the strings that are a CID, and the CID of each
Cids ==
    (<<"bafyreicmaj5hhoy5mgqvamfhgexxyergw7hdeshizghodwkjg6qmpoco7i">>
        :> <<"Cid", "1">>)

\* str::parse::<Cid>
ParseCid(s) == IF s \in DOMAIN Cids THEN OkVal(Cids[s]) ELSE Err("ParsingError")

\* Result::ok, Option::unwrap_or
ok(result) == IF result.tag = "Ok" THEN Some(result.val) ELSE None

unwrap_or(option, default) == IF option.tag = "Some" THEN option.val ELSE default

\* |v| match v.parse::<i64>() { Ok(f) if f > 0 => Some(f), _ => None } with
\* the guard f > 0 left out
PositiveI64_AnySign(v) == ok(ParseI64(v))

\* |v| match v.parse::<i64>() { Ok(f) if f > 0 => Some(f), _ => None }
PositiveI64(v) ==
    IF ParseI64(v).tag = "Ok" /\ IsPositive(ParseI64(v).val)
    THEN Some(ParseI64(v).val)
    ELSE None

\* std::env::var("FOREST_F3_FINALITY").ok().and_then(..).unwrap_or(..)
ChainFinality(env, chain_config) ==
    unwrap_or(IF ok(env.FOREST_F3_FINALITY).tag = "Some"
              THEN PositiveI64(ok(env.FOREST_F3_FINALITY).val)
              ELSE None,
              chain_config.policy.chain_finality)

\* match std::env::var("FOREST_F3_INITIAL_POWER_TABLE") { .. }
InitialPowerTable(env, chain_config) ==
    IF env.FOREST_F3_INITIAL_POWER_TABLE.tag = "Ok"
       /\ env.FOREST_F3_INITIAL_POWER_TABLE.val = <<>>
    THEN None
    ELSE IF env.FOREST_F3_INITIAL_POWER_TABLE.tag = "Ok"
    THEN IF ParseCid(env.FOREST_F3_INITIAL_POWER_TABLE.val).tag = "Ok"
         THEN Some(ParseCid(env.FOREST_F3_INITIAL_POWER_TABLE.val).val)
         ELSE chain_config.f3_initial_power_table
    ELSE chain_config.f3_initial_power_table

\* std::env::var("FOREST_F3_BOOTSTRAP_EPOCH").ok()
\*     .and_then(|i| i.parse().ok()).unwrap_or(..)
BootstrapEpoch(env, chain_config) ==
    unwrap_or(IF ok(env.FOREST_F3_BOOTSTRAP_EPOCH).tag = "Some"
              THEN ok(ParseI64(ok(env.FOREST_F3_BOOTSTRAP_EPOCH).val))
              ELSE None,
              chain_config.f3_bootstrap_epoch)

\* get_f3_sidecar_params(chain_config)
get_f3_sidecar_params(env, chain_config) ==
    [returned |-> TRUE,
     chain_finality |-> ChainFinality(env, chain_config),
     bootstrap_epoch |-> BootstrapEpoch(env, chain_config),
     initial_power_table |-> InitialPowerTable(env, chain_config)]

\* no F3Options yet
NoOptions ==
    [returned |-> FALSE, chain_finality |-> <<>>, bootstrap_epoch |-> <<>>,
     initial_power_table |-> None]

\* what an environment variable can hold for an integer
IntegerStrings ==
    {<<>>, <<"1","0","0">>, <<"0">>, <<"-","5">>, <<"+","7">>, <<"0","0","7">>,
     <<"-","0">>, <<"a","b","c">>, <<" ","1">>, <<"1","x">>, <<"-">>, <<"+">>,
     <<"1",".","5">>, I64MaxDigits, I64MinDigits, <<"-">> \o I64MinDigits,
     <<"-">> \o SubSeq(I64MinDigits, 1, 18) \o <<"9">>}

\* what std::env::var returns: the value, or that the variable is not set or
\* holds no Unicode
EnvVar(strings) ==
    {OkVal(s) : s \in strings} \cup {Err("NotPresent"), Err("NotUnicode")}

Environments ==
    [FOREST_F3_FINALITY : EnvVar(IntegerStrings),
     FOREST_F3_INITIAL_POWER_TABLE : EnvVar(DOMAIN Cids \cup {<<>>, <<"b","a","f","y">>}),
     FOREST_F3_BOOTSTRAP_EPOCH :
         EnvVar({<<>>, <<"1","0","0">>, <<"-","5">>, <<"0">>, <<"1","x">>,
                 I64MinDigits})]

ChainConfigs ==
    [policy : [chain_finality : {<<"+","9","0","0">>, <<"+","2","0">>}],
     f3_bootstrap_epoch : {<<"+","1","0","0","0">>, <<"-","1">>},
     f3_initial_power_table : {None, Some(<<"Cid", "2">>)}]

beside_f3 == <<importer, startup, store, eth>>

InitF3 ==
    /\ StoreIdle
    /\ ImporterIdle
    /\ StartupIdle
    /\ f3 \in [env : Environments, chain_config : ChainConfigs, options : {NoOptions}]
    /\ MappingsIdle

\* the call of get_f3_sidecar_params(&chain_config)
GetF3SidecarParams ==
    /\ ~f3.options.returned
    /\ f3' = [f3 EXCEPT !.options = get_f3_sidecar_params(f3.env, f3.chain_config)]
    /\ UNCHANGED beside_f3

SpecF3 == InitF3 /\ [][GetF3SidecarParams]_vars

\* the i64 each string of IntegerStrings denotes; a string that denotes none
\* is no i64
Denotes ==
    (<<"1","0","0">> :> <<"+","1","0","0">>)
    @@ (<<"0">> :> <<"+","0">>)
    @@ (<<"-","5">> :> <<"-","5">>)
    @@ (<<"+","7">> :> <<"+","7">>)
    @@ (<<"0","0","7">> :> <<"+","7">>)
    @@ (<<"-","0">> :> <<"+","0">>)
    @@ (I64MaxDigits :> <<"+">> \o I64MaxDigits)
    @@ ((<<"-">> \o I64MinDigits) :> <<"-">> \o I64MinDigits)

\* the variable holds a string that is an i64
HoldsI64(var) == var.tag = "Ok" /\ var.val \in DOMAIN Denotes

\* C26: chain_finality is the value of FOREST_F3_FINALITY when that is an
\* i64 above 0, and the chain config's otherwise; bootstrap_epoch is the
\* value of FOREST_F3_BOOTSTRAP_EPOCH when that is an i64, and the chain
\* config's otherwise; initial_power_table is None when
\* FOREST_F3_INITIAL_POWER_TABLE is the empty string, the CID it holds when
\* it holds one, and the chain config's when it is not set or holds no CID.
C26_EnvOverridesWhenUsable ==
    f3.options.returned =>
        /\ f3.options.chain_finality =
              IF HoldsI64(f3.env.FOREST_F3_FINALITY)
                 /\ Denotes[f3.env.FOREST_F3_FINALITY.val][1] = "+"
                 /\ Denotes[f3.env.FOREST_F3_FINALITY.val] # <<"+", "0">>
              THEN Denotes[f3.env.FOREST_F3_FINALITY.val]
              ELSE f3.chain_config.policy.chain_finality
        /\ f3.options.bootstrap_epoch =
              IF HoldsI64(f3.env.FOREST_F3_BOOTSTRAP_EPOCH)
              THEN Denotes[f3.env.FOREST_F3_BOOTSTRAP_EPOCH.val]
              ELSE f3.chain_config.f3_bootstrap_epoch
        /\ f3.options.initial_power_table =
              IF f3.env.FOREST_F3_INITIAL_POWER_TABLE = OkVal(<<>>)
              THEN None
              ELSE IF f3.env.FOREST_F3_INITIAL_POWER_TABLE.tag = "Ok"
                      /\ f3.env.FOREST_F3_INITIAL_POWER_TABLE.val \in DOMAIN Cids
              THEN Some(Cids[f3.env.FOREST_F3_INITIAL_POWER_TABLE.val])
              ELSE f3.chain_config.f3_initial_power_table

\* the call has returned the chain config's finality for FOREST_F3_FINALITY
\* = "-5", the bootstrap epoch -5 of FOREST_F3_BOOTSTRAP_EPOCH, and no power
\* table for the empty FOREST_F3_INITIAL_POWER_TABLE
C26_Witness ==
    /\ f3.options.returned
    /\ f3.env.FOREST_F3_FINALITY = OkVal(<<"-","5">>)
    /\ f3.env.FOREST_F3_BOOTSTRAP_EPOCH = OkVal(<<"-","5">>)
    /\ f3.env.FOREST_F3_INITIAL_POWER_TABLE = OkVal(<<>>)
    /\ f3.chain_config.f3_initial_power_table # None
    /\ f3.options.chain_finality = f3.chain_config.policy.chain_finality
    /\ f3.options.bootstrap_epoch = <<"-","5">>
    /\ f3.options.initial_power_table = None

BlockAt(p) == read_block_data_location_and_skip(reader, p, -1)

\* the reader cut off where the block data of the frame at p starts
WithoutData(p) == SubSeq(reader, 1, BlockAt(p).offset)

\* C28: for every block frame that read_block_data_location_and_skip
\* indexes, the location has offset = frame_body_offset + cid_length and
\* length = body_length - cid_length, the cursor is left at
\* frame_body_offset + body_length, and the result is the same on a reader
\* without the block data: no byte of it is read.  Every location of an
\* opened handle's index is that of such a frame.
C28_LocationArithmetic ==
    /\ \A p \in 0..Len(reader) :
           BlockAt(p).kind = "Some" =>
               LET r == BlockAt(p)
                   body_length == ReadVarint(reader, p, VarintMaxU32)
                   frame_body_offset == body_length.pos
                   cid_length == Len(r.cid)
               IN /\ body_length.kind = "Ok"
                  /\ r.cid = SubSeq(reader, frame_body_offset + 1,
                                    frame_body_offset + cid_length)
                  /\ r.offset = frame_body_offset + cid_length
                  /\ r.length = body_length.val - cid_length
                  /\ r.pos = frame_body_offset + body_length.val
                  /\ read_block_data_location_and_skip(WithoutData(p), p, -1) = r
    /\ stage = "open" =>
           \A c \in DOMAIN index :
               \E p \in 0..Len(reader) :
                   /\ BlockAt(p).kind = "Some"
                   /\ BlockAt(p).cid = c
                   /\ BlockAt(p).offset = index[c].offset
                   /\ BlockAt(p).length = index[c].length

\* an archive of two block frames is opened, its index holding both
C28_Witness ==
    /\ stage = "open"
    /\ reader = CarV1(Roots, <<Block(<<8, 9>>), Block(<<7>>)>>)
    /\ Cardinality(DOMAIN index) = 2
    /\ \E p \in 0..Len(reader) : BlockAt(p).kind = "Some" /\ BlockAt(p).length = 2

\* C29: read_block_data_location_and_skip returns Ok(None) exactly when the
\* cursor is at or beyond the limit position, or at the end of the input;
\* the frames of an opened CARv2 archive's index all start before
\* data_offset + data_size, and every frame that starts before it is in
\* the index.
C29_StopsAtLimitOrEof ==
    /\ \A p \in 0..Len(reader) : \A limit \in -1..(Len(reader) + 1) :
           read_block_data_location_and_skip(reader, p, limit).kind = "None"
               <=> ((limit >= 0 /\ p >= limit) \/ p >= Len(reader))
    /\ (stage = "open" /\ version = 2) =>
           /\ \A c \in DOMAIN index :
                  \E p \in 0..Len(reader) :
                      /\ p < WireStop(reader)
                      /\ BlockAt(p).kind = "Some"
                      /\ BlockAt(p).cid = c
                      /\ BlockAt(p).offset = index[c].offset
           /\ DOMAIN index = {WireFrames(reader)[i].cid : i \in 1..Len(WireFrames(reader))}

\* a CARv2 archive is opened whose index section reads as a block frame, and
\* that frame, at the limit position, is not in the index
C29_Witness ==
    /\ stage = "open"
    /\ version = 2
    /\ WireStop(reader) < Len(reader)
    /\ BlockAt(WireStop(reader)).kind = "Some"
    /\ BlockAt(WireStop(reader)).cid \notin DOMAIN index
    /\ read_block_data_location_and_skip(reader, WireStop(reader),
                                         WireStop(reader)).kind = "None"

\* the first block frame of data declares a body length of 2^32 or more in
\* a varint of five bytes
FirstLengthAbove32(data) ==
    LET at == read_v1_header(data, WireStart(data))
    IN /\ at.kind = "Ok"
       /\ at.pos + VarintMaxU32 <= Len(data)
       /\ \A i \in 1..(VarintMaxU32 - 1) : data[at.pos + i] >= 128
       /\ data[at.pos + VarintMaxU32] < 128
       /\ data[at.pos + VarintMaxU32] >= 16

\* C30: new fails on an archive with a block frame whose body length does
\* not fit a u32: no location is made of the length cut to its 32 low bits.
C30_OversizeLengthRefused ==
    (stage # "init" /\ FirstLengthAbove32(reader)) => stage = "failed"

\* t is inside a call of get
InGet(t) == pc[t] \in {"g_lock1", "g_lock2", "g_match", "g_evict"}

\* C31: once new has returned, no step of a get or of a put_keyed (which
\* put_keyed_persistent is) changes the index: it stays the one new has
\* built; and no step of a get changes the index or the write cache.
C31_IndexBuiltOnce ==
    /\ [](stage = "open" => index = PlainCarNew(reader).index)
    /\ [][stage = "open" => index' = index]_vars
    /\ [][\A t \in Threads :
             (InGet(t) /\ pc'[t] # pc[t])
                 => (index' = index /\ write_cache' = write_cache)]_vars

\* a put_keyed has put a CID into the write cache and a get has returned,
\* and the index is without that CID
C31_Witness ==
    /\ stage = "open"
    /\ \E i, j \in 1..Len(hist) :
           /\ hist[i].op = "put_keyed"
           /\ hist[i].ret = OkUnit
           /\ hist[i].k \in DOMAIN write_cache
           /\ hist[i].k \notin DOMAIN index
           /\ hist[j].op = "get"
           /\ hist[j].ret.tag = "Some"

\* the loop has dealt with the entry n in this step
Visited(n) == n \in loader.todo /\ n \notin loader'.todo

\* C32: the loader takes directories and entries of other names for nothing:
\* the turn of the loop for one of them changes neither the directory nor
\* the store and the loop goes on; a missing directory is created before the
\* walk; the loader changes no entry and removes none but files with the
\* extension of a temporary file, with cleanup = true; only archive files
\* are handed to the store; after a removal that failed the loop goes on.
C32_LoaderTouchesNothingElse ==
    /\ [][\A n \in DOMAIN car_db :
             (Visited(n) /\ (car_db[n].kind = "dir"
                             \/ (~ends_with(n, FOREST_CAR_FILE_EXTENSION)
                                 /\ ~ends_with(n, TEMP_FOREST_CAR_FILE_EXTENSION))))
                 => /\ car_db' = car_db
                    /\ many_car' = many_car
                    /\ loader'.pc = "walk"]_vars
    /\ [](loader.pc \in {"walk", "done"} /\ loader.ret # "Err" => db_dir = "dir")
    /\ [][db_dir' # db_dir => (db_dir = "missing" /\ db_dir' = "dir"
                                /\ loader.pc = "dir")]_vars
    /\ [][/\ DOMAIN car_db' \subseteq DOMAIN car_db
          /\ \A n \in DOMAIN car_db' : car_db'[n] = car_db[n]
          /\ \A n \in DOMAIN car_db \ DOMAIN car_db' :
                 loader.cleanup /\ IsTempFile(car_db, n) /\ Visited(n)]_vars
    /\ [](loader.pc # "-" =>
             \A i \in DOMAIN Appended :
                 Appended[i] \in DOMAIN car_db /\ IsArchiveFile(car_db, Appended[i]))
    /\ [][\A n \in loader'.warned \ loader.warned :
             /\ Visited(n)
             /\ loader'.pc = "walk"
             /\ loader'.ret = "-"
             /\ car_db' = car_db]_vars

\* the loader has returned Ok after the removal of the temporary file had
\* failed, with an archive registered and every entry still in place
C32_Witness ==
    /\ loader.ret = "Ok"
    /\ loader.cleanup
    /\ loader.warned = {<<"3", ".forest.car.zst", ".tmp">>}
    /\ Appended # <<>>
    /\ \E n \in DOMAIN car_db : car_db[n].kind = "dir"
    /\ <<"4", ".car", ".tmp">> \in DOMAIN car_db

(***************************************************************************)
(* An import into a directory that an earlier import has left an archive  *)
(* in.  The final path of a call is the directory joined with the         *)
(* millisecond the clock gives at the call and the extension, so the       *)
(* archive of the earlier call is at "final" when the clock gave both      *)
(* calls the same millisecond, and at "earlier" when it did not.           *)
(***************************************************************************)
EarlierArchive == File("forest", 4, 4)

FinalNames == {"final", "earlier"}

InitImportInto ==
    /\ source \in Sources
    /\ car_db \in {EmptyDir, Put(EmptyDir, "final", EarlierArchive),
                   Put(EmptyDir, "earlier", EarlierArchive)}
    /\ import = NotImporting
    /\ StoreIdle
    /\ StartupIdle
    /\ SidecarIdle
    /\ MappingsIdle

SpecImportInto == InitImportInto /\ [][ImportNext]_vars

\* C33: no step of an import replaces, changes or removes a file that is in
\* the managed directory under a final name.
C33_NoArchiveReplaced ==
    [][\A n \in DOMAIN car_db \cap FinalNames :
          n \in DOMAIN car_db' /\ car_db'[n] = car_db[n]]_vars

\* the bytes of the calls put_keyed(k, ..) made so far, returned or not
BytesPut(k) ==
    {hist[i].block : i \in {j \in 1..Len(hist) :
                               hist[j].op = "put_keyed" /\ hist[j].k = k}}
    \cup {arg[t].block : t \in {u \in Threads :
                                   arg[u].op = "put_keyed" /\ arg[u].k = k}}

\* calls i < j of the history overlap: j had started when i returned
Overlap(i, j) == i < j /\ hist[j].start < i

\* C34: as long as every put_keyed of a CID that is not in the index has
\* come with the same bytes, on whatever threads and however the calls
\* overlap, each of the calls that has ended returned Ok and the write cache
\* holds those bytes under the CID; a put_keyed of a CID that is cached
\* leaves the write cache as it is, and no entry is taken out again, so the
\* bytes are inserted once.
C34_ConcurrentSamePut ==
    /\ [](\A k \in PutCids \ DOMAIN index :
             Cardinality(BytesPut(k)) <= 1 =>
                 \A i \in 1..Len(hist) :
                     (hist[i].op = "put_keyed" /\ hist[i].k = k)
                         => /\ hist[i].ret = OkUnit
                            /\ k \in DOMAIN write_cache
                            /\ write_cache[k] = hist[i].block)
    /\ [][\A t \in Threads :
             (PutHandled(t) /\ arg[t].k \in DOMAIN write_cache
                            /\ arg[t].block = write_cache[arg[t].k])
                 => write_cache' = write_cache /\ pc'[t] = "idle"]_vars
    /\ [][\A k \in DOMAIN write_cache : k \in DOMAIN write_cache']_vars

\* two calls put_keyed(cid, b) that overlapped have both returned Ok
C34_Witness ==
    \E i, j \in 1..Len(hist) :
        /\ Overlap(i, j)
        /\ hist[i].k \notin DOMAIN index
        /\ IsPutOk(i, hist[i].k, hist[i].block)
        /\ IsPutOk(j, hist[i].k, hist[i].block)
        /\ write_cache[hist[i].k] = hist[i].block
        /\ Cardinality(DOMAIN write_cache) = 1

\* C35: when put_keyed(cid, b) has returned Ok for a CID that is not in the
\* index, every get(cid) that started after it has returned Some(b), and
\* every other get(cid), before it or overlapping it, has returned None or
\* Some(b); no step changes an entry of the write cache or takes one out.
C35_CachedBytesStay ==
    /\ [](\A i, j \in 1..Len(hist) :
             (/\ hist[i].k \notin DOMAIN index
              /\ IsPutOk(i, hist[i].k, hist[i].block)
              /\ hist[j].op = "get"
              /\ hist[j].k = hist[i].k)
             => /\ hist[j].ret \in {None, Some(hist[i].block)}
                /\ StartedAfter(j, i) => hist[j].ret = Some(hist[i].block))
    /\ [][\A k \in DOMAIN write_cache :
             k \in DOMAIN write_cache' /\ write_cache'[k] = write_cache[k]]_vars
    /\ [][\A t \in Threads :
             (GetReturned(t) /\ arg[t].k \in DOMAIN write_cache
                             /\ arg[t].k \notin DOMAIN index)
                 => Last(hist').ret = Some(write_cache[arg[t].k])]_vars

\* a get(cid) that overlapped put_keyed(cid, b) has returned None, and one
\* that started after the put had returned has returned Some(b)
C35_Witness ==
    /\ Len(hist) = 3
    /\ hist[1].op = "get"
    /\ hist[1].ret = None
    /\ Overlap(1, 2)
    /\ hist[2].k = hist[1].k
    /\ hist[2].k \notin DOMAIN index
    /\ IsPutOk(2, hist[2].k, hist[2].block)
    /\ hist[3].op = "get"
    /\ hist[3].k = hist[2].k
    /\ StartedAfter(3, 2)
    /\ hist[3].ret = Some(hist[2].block)

\* C36: when an import of a local file that was there at the call has
\* returned an error, in whatever mode, the file is still at from_path.
C36_SourceSurvivesError ==
    (/\ import.ret = "Err"
     /\ source.kind = "file"
     /\ source.format # "-") => source.exists

(***************************************************************************)
(* populate_eth_mappings.  An epoch is an i64; the model keeps the type's  *)
(* two limits as I64_MAX and I64_MIN, far beyond every epoch of a chain,   *)
(* and the subtraction saturates at them as i64::saturating_sub does.      *)
(***************************************************************************)
I64_MAX == Huge - 1

I64_MIN == 0 - Huge

RECURSIVE DecimalValue(_)
DecimalValue(digits) ==
    IF digits = <<>> THEN 0
    ELSE 10 * DecimalValue(SubSeq(digits, 1, Len(digits) - 1))
         + DigitValue[digits[Len(digits)]]

\* the number a parsed i64 stands for
ToI64(v) ==
    IF Tail(v) = I64MaxDigits THEN I64_MAX
    ELSE IF Tail(v) = I64MinDigits THEN I64_MIN
    ELSE IF v[1] = "-" THEN 0 - DecimalValue(Tail(v))
    ELSE DecimalValue(Tail(v))

\* i64::saturating_sub
saturating_sub(a, b) ==
    IF a - b > I64_MAX THEN I64_MAX
    ELSE IF a - b < I64_MIN THEN I64_MIN
    ELSE a - b

\* Ord::max
max(a, b) == IF a >= b THEN a ELSE b

\* from_epoch without the clamp to the Hygge epoch
from_epoch_NoClamp(var, head_epoch, hygge) ==
    IF var.tag = "Ok" /\ ParseI64(var.val).tag = "Ok"
    THEN saturating_sub(head_epoch, ToI64(ParseI64(var.val).val))
    ELSE hygge

\* std::env::var("FOREST_ETH_MAPPINGS_RANGE").ok()
\*     .and_then(|v| v.parse::<i64>().ok())
\*     .map(|num_epochs| (head_ts.epoch().saturating_sub(num_epochs)).max(hygge))
\*     .unwrap_or(hygge)
from_epoch(var, head_epoch, hygge) ==
    IF var.tag = "Ok" /\ ParseI64(var.val).tag = "Ok"
    THEN max(saturating_sub(head_epoch, ToI64(ParseI64(var.val).val)), hygge)
    ELSE hygge

\* a tipset: its epoch, its key, and the delegated messages of its headers
Tipset(epoch) ==
    [epoch |-> epoch, key |-> <<"key", epoch>>,
     messages |-> IF epoch % 2 = 0 THEN <<<<"msg", epoch>>>> ELSE <<>>]

\* head_ts.chain(blockstore): the head, then parent after parent for as long
\* as the blockstore holds one, each of a lower epoch than its child
ChainOf(epochs) == [i \in DOMAIN epochs |-> Tipset(epochs[i])]

Chains ==
    {ChainOf(epochs) : epochs \in {<<6, 5, 4, 2, 1, 0>>, <<5, 3>>, <<4, 3, 2>>, <<0>>}}

\* chain_config.epoch(Height::Hygge)
HyggeEpochs == {-1, 0, 3, 5, 7}

\* what FOREST_ETH_MAPPINGS_RANGE can hold
RangeStrings ==
    {<<>>, <<"2">>, <<"0">>, <<"-","3">>, <<"+","1">>, <<"1","0","0">>,
     <<"a">>, <<" ","2">>, <<"2","x">>, I64MaxDigits, I64MinDigits,
     <<"-">> \o I64MinDigits}

beside_eth == <<importer, startup, store, f3>>

InitEth ==
    /\ StoreIdle
    /\ ImporterIdle
    /\ StartupIdle
    /\ SidecarIdle
    /\ eth \in [pc : {"-"}, env : EnvVar(RangeStrings), hygge : HyggeEpochs,
                chain : Chains, from_epoch : {0}, at : {0}, keys : {{}},
                delegated : {<<>>}, processed : {<<>>}, ret : {"-"}]

\* populate_eth_mappings(state_manager, head_ts), up to the loop
populate_eth_mappings ==
    /\ eth.pc = "-"
    /\ eth' = [eth EXCEPT !.pc = "walk",
                          !.from_epoch = from_epoch(eth.env, eth.chain[1].epoch,
                                                    eth.hygge),
                          !.at = 1]
    /\ UNCHANGED beside_eth

\* the call returns the error of one of its `?`
EthErr == eth' = [eth EXCEPT !.pc = "done", !.ret = "Err"]

\* one turn of the loop: the iterator is at its end or the tipset is below
\* from_epoch and the loop is left; or headers_delegated_messages and
\* put_tipset_key are called, either of which can return an error
VisitTipset ==
    /\ eth.pc = "walk"
    /\ IF eth.at > Len(eth.chain) \/ eth.chain[eth.at].epoch < eth.from_epoch
       THEN eth' = [eth EXCEPT !.pc = "process"]
       ELSE \/ eth' = [eth EXCEPT !.delegated = @ \o eth.chain[eth.at].messages,
                                  !.keys = @ \cup {eth.chain[eth.at].key},
                                  !.at = @ + 1]
            \/ EthErr
            \/ eth' = [eth EXCEPT !.delegated = @ \o eth.chain[eth.at].messages,
                                  !.pc = "done", !.ret = "Err"]
    /\ UNCHANGED beside_eth

\* process_signed_messages(&delegated_messages)?; Ok(())
ProcessSignedMessages ==
    /\ eth.pc = "process"
    /\ \E r \in {"Ok", "Err"} :
          eth' = [eth EXCEPT !.pc = "done", !.ret = r,
                             !.processed = Append(@, eth.delegated)]
    /\ UNCHANGED beside_eth

EthNext == populate_eth_mappings \/ VisitTipset \/ ProcessSignedMessages

SpecEth == InitEth /\ [][EthNext]_vars

\* the i64 each string of RangeStrings denotes
RangeDenotes ==
    (<<"2">> :> 2) @@ (<<"0">> :> 0) @@ (<<"-","3">> :> -3) @@ (<<"+","1">> :> 1)
    @@ (<<"1","0","0">> :> 100) @@ (I64MaxDigits :> I64_MAX)
    @@ ((<<"-">> \o I64MinDigits) :> I64_MIN)

\* the tipsets of the chain at or above the bound
AtOrAbove(bound) == {i \in DOMAIN eth.chain : eth.chain[i].epoch >= bound}

\* C37: the lower bound is max(head_epoch - N, hygge), the subtraction
\* saturating, when FOREST_ETH_MAPPINGS_RANGE holds an i64 N, and hygge
\* otherwise, hence never below hygge; a turn of the loop at a tipset at or
\* above the bound puts its key or returns an error, a turn at a tipset
\* below the bound leaves the loop; process_signed_messages is called after
\* the loop only, once, with the messages gathered; when the call has
\* returned Ok the keys put are those of all tipsets at or above the bound.
C37_MappingsFromBound ==
    /\ [](eth.pc # "-" =>
             /\ eth.from_epoch >= eth.hygge
             /\ eth.from_epoch =
                   IF eth.env.tag = "Ok" /\ eth.env.val \in DOMAIN RangeDenotes
                   THEN LET d == eth.chain[1].epoch - RangeDenotes[eth.env.val]
                        IN max(IF d > I64_MAX THEN I64_MAX
                               ELSE IF d < I64_MIN THEN I64_MIN ELSE d,
                               eth.hygge)
                   ELSE eth.hygge)
    /\ [][(eth.pc = "walk" /\ eth.at <= Len(eth.chain)) =>
             IF eth.chain[eth.at].epoch >= eth.from_epoch
             THEN \/ /\ eth'.keys = eth.keys \cup {eth.chain[eth.at].key}
                     /\ eth'.pc = "walk"
                     /\ eth'.at = eth.at + 1
                  \/ eth'.ret = "Err"
             ELSE eth'.pc = "process" /\ eth'.keys = eth.keys]_vars
    /\ [][eth'.processed # eth.processed =>
             /\ eth.pc = "process"
             /\ eth.processed = <<>>
             /\ eth'.processed = <<eth.delegated>>
             /\ eth'.pc = "done"
             /\ eth'.keys = eth.keys]_vars
    /\ [](eth.pc = "process" =>
             eth.keys = {eth.chain[i].key : i \in AtOrAbove(eth.from_epoch)})
    /\ [](eth.ret = "Ok" =>
             /\ Len(eth.processed) = 1
             /\ eth.keys = {eth.chain[i].key : i \in AtOrAbove(eth.from_epoch)})

\* with FOREST_ETH_MAPPINGS_RANGE = 100, a head at epoch 6 and Hygge at 3 the
\* bound is 3: the keys of epochs 6, 5 and 4 are put, the walk has stopped
\* at epoch 2, and process_signed_messages was called once
C37_Witness ==
    /\ eth.ret = "Ok"
    /\ eth.env = OkVal(<<"1","0","0">>)
    /\ eth.hygge = 3
    /\ eth.from_epoch = 3
    /\ eth.keys = {<<"key", 6>>, <<"key", 5>>, <<"key", 4>>}
    /\ eth.at = 4
    /\ Len(eth.processed) = 1

====
